---- MODULE Spec2Model ----
(***************************************************************************)
(* WineSave: the backup manager of src/main.go (catalog of detected games, *)
(* heuristic scan, archive creation, retention pruning).                    *)
(*                                                                          *)
(* Strings are sequences of one-character strings, so that the string      *)
(* functions of the code (ToLower, Contains, ReplaceAll, Split, Trim,      *)
(* filepath.Match) are computed and not assumed.                           *)
(***************************************************************************)
EXTENDS Integers, Sequences, FiniteSets, TLC

(***************************************************************************)
(* Go string functions used by the code.                                   *)
(***************************************************************************)
UpperChars ==
  <<"A","B","C","D","E","F","G","H","I","J","K","L","M",
    "N","O","P","Q","R","S","T","U","V","W","X","Y","Z">>

LowerChars ==
  <<"a","b","c","d","e","f","g","h","i","j","k","l","m",
    "n","o","p","q","r","s","t","u","v","w","x","y","z">>

DigitChars == <<"0","1","2","3","4","5","6","7","8","9">>

Range(s) == { s[i] : i \in 1..Len(s) }

\* f as an explicit function: TLC keeps [x \in S |-> e] unevaluated, @@ enumerates it
Tabulate(f) == f @@ <<>>

IndexIn(c, s) == CHOOSE i \in 1..Len(s) : s[i] = c

\* unicode.ToLower / unicode.ToUpper on one ASCII character
LowerChar(c) == IF c \in Range(UpperChars) THEN LowerChars[IndexIn(c, UpperChars)] ELSE c

UpperChar(c) == IF c \in Range(LowerChars) THEN UpperChars[IndexIn(c, LowerChars)] ELSE c

\* strings.ToLower
ToLower(s) == [i \in 1..Len(s) |-> LowerChar(s[i])]

\* strings.ToUpper
ToUpper(s) == [i \in 1..Len(s) |-> UpperChar(s[i])]

Drop(s, n) == SubSeq(s, n + 1, Len(s))

Take(s, n) == SubSeq(s, 1, n)

\* strings.HasPrefix
HasPrefix(s, p) == Len(p) <= Len(s) /\ Take(s, Len(p)) = p

\* strings.Contains
Contains(s, sub) == \E i \in 0..(Len(s) - Len(sub)) : SubSeq(s, i + 1, i + Len(sub)) = sub

\* the offsets at which sub occurs in s
OffsetsOf(s, sub) ==
  { i \in 0..(Len(s) - Len(sub)) : SubSeq(s, i + 1, i + Len(sub)) = sub }

\* the least offset, -1 when there is none
LeastOr(offsets) ==
  IF offsets = {} THEN -1 ELSE CHOOSE i \in offsets : \A j \in offsets : i <= j

\* strings.Index: the offset of the first occurrence, -1 when there is none
Index(s, sub) == LeastOr(OffsetsOf(s, sub))

\* strings.ReplaceAll for a non-empty old: leftmost non-overlapping occurrences,
\* i the offset of the first one
RECURSIVE ReplaceAll(_, _, _)
ReplaceFrom(s, old, new, i) ==
  IF i = -1 THEN s
  ELSE SubSeq(s, 1, i) \o new \o ReplaceAll(SubSeq(s, i + Len(old) + 1, Len(s)), old, new)

ReplaceAll(s, old, new) == ReplaceFrom(s, old, new, Index(s, old))

\* the k-th position of cuts in ascending order
NthOf(cuts, k) == CHOOSE i \in cuts : Cardinality({ j \in cuts : j < i }) = k - 1

\* the k-th part of s cut at the positions cuts
PartOf(s, cuts, k) ==
  SubSeq(s, IF k = 1 THEN 1 ELSE NthOf(cuts, k - 1) + 1,
            IF k > Cardinality(cuts) THEN Len(s) ELSE NthOf(cuts, k) - 1)

SplitAt(s, cuts) == [k \in 1..(Cardinality(cuts) + 1) |-> PartOf(s, cuts, k)] @@ <<>>

\* strings.Split for a one-character separator: always at least one part
Split(s, sep) == SplitAt(s, { i \in 1..Len(s) : s[i] = sep })

\* strings.Join
RECURSIVE Join(_, _)
Join(parts, sep) ==
  IF parts = <<>> THEN <<>>
  ELSE IF Len(parts) = 1 THEN parts[1]
  ELSE parts[1] \o sep \o Join(Tail(parts), sep)

\* strings.Trim(s, cutset) for a one-character cutset
RECURSIVE TrimLeft(_, _)
TrimLeft(s, c) == IF s # <<>> /\ Head(s) = c THEN TrimLeft(Tail(s), c) ELSE s

RECURSIVE TrimRight(_, _)
TrimRight(s, c) == IF s # <<>> /\ s[Len(s)] = c THEN TrimRight(Take(s, Len(s) - 1), c) ELSE s

Trim(s, c) == TrimRight(TrimLeft(s, c), c)

\* strings.Fields: the maximal runs of non-space characters
Fields(s) == SelectSeq(Split(s, " "), LAMBDA w : w # <<>>)

(***************************************************************************)
(* filepath.Match for patterns made of literals, '*' and '?' (no pattern   *)
(* of the model holds a character class or an escape): '*' matches any run *)
(* of non-separator characters, '?' one non-separator character.           *)
(***************************************************************************)
RECURSIVE Match(_, _)
Match(pattern, name) ==
  IF pattern = <<>> THEN name = <<>>
  ELSE IF Head(pattern) = "*"
    THEN \E k \in 0..Len(name) :
           /\ "/" \notin Range(Take(name, k))
           /\ Match(Tail(pattern), Drop(name, k))
  ELSE /\ name # <<>>
       /\ \/ Head(pattern) = "?" /\ Head(name) # "/"
          \/ Head(pattern) # "?" /\ Head(pattern) = Head(name)
       /\ Match(Tail(pattern), Tail(name))

(***************************************************************************)
(* Tables of the program.                                                  *)
(***************************************************************************)
\* SaveFilePatterns (main.go 330-334)
SaveFilePatterns ==
  <<<<"*",".","s","a","v">>,
    <<"*",".","s","a","v","e">>,
    <<"*",".","d","a","t">>,
    <<"*",".","b","i","n">>,
    <<"*",".","c","f","g">>,
    <<"s","a","v","e","*">>,
    <<"*",".","s","l","o","t">>,
    <<"p","r","o","f","i","l","e","*">>,
    <<"*",".","b","a","k">>,
    <<"*",".","j","s","o","n">>,
    <<"*",".","x","m","l">>,
    <<"*",".","i","n","i">>,
    <<"*",".","t","x","t">>,
    <<"*",".","s","l","2">>>>

\* keywords of looksLikeSaveDirectory (main.go 632)
SaveKeywords ==
  <<<<"s","a","v","e">>,
    <<"p","r","o","f","i","l","e">>,
    <<"c","o","n","f","i","g">>,
    <<"s","e","t","t","i","n","g","s">>,
    <<"u","s","e","r">>,
    <<"p","l","a","y","e","r">>>>

\* KnownGames (main.go 337-429): id, name, platform, save paths, patterns, metadata.
\* The zero values of the Go literal: LastBackup, TotalSize, FileCount, CustomPaths.
KnownGamesTable ==
  <<[ID |-> <<"e","l","d","e","n","-","r","i","n","g">>,
     Name |-> <<"E","l","d","e","n"," ","R","i","n","g">>,
     Platform |-> "steam",
     SavePaths |-> <<<<"%","A","P","P","D","A","T","A","%","/","E","l","d","e","n","R","i","n","g">>>>,
     Patterns |-> <<<<"*",".","s","l","2">>>>,
     Metadata |-> {<<"publisher", "FromSoftware">>, <<"genre", "Action RPG">>}],
    [ID |-> <<"d","a","r","k","-","s","o","u","l","s","-","3">>,
     Name |-> <<"D","a","r","k"," ","S","o","u","l","s"," ","I","I","I">>,
     Platform |-> "steam",
     SavePaths |-> <<<<"%","A","P","P","D","A","T","A","%","/","D","a","r","k","S","o","u","l","s","I","I","I">>>>,
     Patterns |-> <<<<"*",".","s","l","2">>>>,
     Metadata |-> {<<"publisher", "FromSoftware">>, <<"genre", "Action RPG">>}],
    [ID |-> <<"c","y","b","e","r","p","u","n","k","-","2","0","7","7">>,
     Name |-> <<"C","y","b","e","r","p","u","n","k"," ","2","0","7","7">>,
     Platform |-> "multiple",
     SavePaths |-> <<<<"%","U","S","E","R","P","R","O","F","I","L","E","%","/","S","a","v","e","d"," ","G","a","m","e","s","/","C","D"," ","P","r","o","j","e","k","t"," ","R","e","d","/","C","y","b","e","r","p","u","n","k"," ","2","0","7","7">>>>,
     Patterns |-> <<<<"*",".","d","a","t">>,
                   <<"*",".","j","s","o","n">>>>,
     Metadata |-> {<<"publisher", "CD Projekt RED">>, <<"genre", "Action RPG">>}],
    [ID |-> <<"w","i","t","c","h","e","r","-","3">>,
     Name |-> <<"T","h","e"," ","W","i","t","c","h","e","r"," ","3",":"," ","W","i","l","d"," ","H","u","n","t">>,
     Platform |-> "multiple",
     SavePaths |-> <<<<"%","U","S","E","R","P","R","O","F","I","L","E","%","/","D","o","c","u","m","e","n","t","s","/","T","h","e"," ","W","i","t","c","h","e","r"," ","3">>>>,
     Patterns |-> <<<<"*",".","s","a","v">>>>,
     Metadata |-> {<<"publisher", "CD Projekt RED">>, <<"genre", "Action RPG">>}],
    [ID |-> <<"s","k","y","r","i","m","-","s","e">>,
     Name |-> <<"T","h","e"," ","E","l","d","e","r"," ","S","c","r","o","l","l","s"," ","V",":"," ","S","k","y","r","i","m"," ","S","p","e","c","i","a","l"," ","E","d","i","t","i","o","n">>,
     Platform |-> "steam",
     SavePaths |-> <<<<"%","U","S","E","R","P","R","O","F","I","L","E","%","/","D","o","c","u","m","e","n","t","s","/","M","y"," ","G","a","m","e","s","/","S","k","y","r","i","m"," ","S","p","e","c","i","a","l"," ","E","d","i","t","i","o","n">>>>,
     Patterns |-> <<<<"*",".","e","s","s">>,
                   <<"*",".","s","k","s","e">>>>,
     Metadata |-> {<<"publisher", "Bethesda">>, <<"genre", "Action RPG">>}],
    [ID |-> <<"f","a","l","l","o","u","t","-","4">>,
     Name |-> <<"F","a","l","l","o","u","t"," ","4">>,
     Platform |-> "steam",
     SavePaths |-> <<<<"%","U","S","E","R","P","R","O","F","I","L","E","%","/","D","o","c","u","m","e","n","t","s","/","M","y"," ","G","a","m","e","s","/","F","a","l","l","o","u","t","4">>>>,
     Patterns |-> <<<<"*",".","f","o","s">>,
                   <<"*",".","f","4","s","e">>>>,
     Metadata |-> {<<"publisher", "Bethesda">>, <<"genre", "Action RPG">>}],
    [ID |-> <<"m","i","n","e","c","r","a","f","t">>,
     Name |-> <<"M","i","n","e","c","r","a","f","t">>,
     Platform |-> "multiple",
     SavePaths |-> <<<<"%","A","P","P","D","A","T","A","%","/",".","m","i","n","e","c","r","a","f","t","/","s","a","v","e","s">>>>,
     Patterns |-> <<<<"l","e","v","e","l",".","d","a","t">>,
                   <<"*",".","m","c","a">>,
                   <<"*",".","d","a","t">>>>,
     Metadata |-> {<<"publisher", "Mojang Studios">>, <<"genre", "Sandbox">>}]>>

\* CommonSavePaths (main.go 298-327)
CommonSavePaths ==
  [steam |-> <<<<"%","U","S","E","R","P","R","O","F","I","L","E","%","/","D","o","c","u","m","e","n","t","s","/","M","y"," ","G","a","m","e","s">>,
             <<"%","A","P","P","D","A","T","A","%">>,
             <<"%","L","O","C","A","L","A","P","P","D","A","T","A","%">>,
             <<"%","U","S","E","R","P","R","O","F","I","L","E","%","/","S","a","v","e","d"," ","G","a","m","e","s">>,
             <<"C",":","/","P","r","o","g","r","a","m"," ","F","i","l","e","s"," ","(","x","8","6",")","/","S","t","e","a","m","/","u","s","e","r","d","a","t","a">>,
             <<"C",":","/","P","r","o","g","r","a","m"," ","F","i","l","e","s","/","S","t","e","a","m","/","u","s","e","r","d","a","t","a">>>>,
   epic |-> <<<<"%","L","O","C","A","L","A","P","P","D","A","T","A","%","/","E","p","i","c","G","a","m","e","s","L","a","u","n","c","h","e","r","/","S","a","v","e","d">>,
             <<"%","U","S","E","R","P","R","O","F","I","L","E","%","/","D","o","c","u","m","e","n","t","s","/","M","y"," ","G","a","m","e","s">>>>,
   uplay |-> <<<<"%","U","S","E","R","P","R","O","F","I","L","E","%","/","D","o","c","u","m","e","n","t","s","/","M","y"," ","G","a","m","e","s">>,
             <<"%","A","P","P","D","A","T","A","%","/","U","b","i","s","o","f","t">>>>,
   origin |-> <<<<"%","U","S","E","R","P","R","O","F","I","L","E","%","/","D","o","c","u","m","e","n","t","s","/","E","l","e","c","t","r","o","n","i","c"," ","A","r","t","s">>,
             <<"%","L","O","C","A","L","A","P","P","D","A","T","A","%","/","E","l","e","c","t","r","o","n","i","c"," ","A","r","t","s">>>>,
   gog |-> <<<<"%","U","S","E","R","P","R","O","F","I","L","E","%","/","D","o","c","u","m","e","n","t","s","/","M","y"," ","G","a","m","e","s">>,
             <<"%","A","P","P","D","A","T","A","%","/","G","O","G",".","c","o","m">>>>,
   xbox |-> <<<<"%","L","O","C","A","L","A","P","P","D","A","T","A","%","/","P","a","c","k","a","g","e","s">>,
             <<"%","U","S","E","R","P","R","O","F","I","L","E","%","/","D","o","c","u","m","e","n","t","s","/","M","y"," ","G","a","m","e","s">>>>]

\* the placeholders of ExpandPath (main.go 472-490)
P_USERPROFILE == <<"%","U","S","E","R","P","R","O","F","I","L","E","%">>

P_APPDATA == <<"%","A","P","P","D","A","T","A","%">>

P_LOCALAPPDATA == <<"%","L","O","C","A","L","A","P","P","D","A","T","A","%">>

P_PROGRAMFILES == <<"%","P","R","O","G","R","A","M","F","I","L","E","S","%">>

P_PROGRAMFILES_X86 == <<"%","P","R","O","G","R","A","M","F","I","L","E","S","(","X","8","6",")","%">>

P_HOME == <<"$","H","O","M","E">>

P_XDG_CONFIG_HOME == <<"$","X","D","G","_","C","O","N","F","I","G","_","H","O","M","E">>

P_XDG_DATA_HOME == <<"$","X","D","G","_","D","A","T","A","_","H","O","M","E">>

(***************************************************************************)
(* Paths.                                                                  *)
(***************************************************************************)
\* filepath.Clean on a slash-separated path
RECURSIVE CleanParts(_, _, _)
CleanParts(parts, rooted, acc) ==
  IF parts = <<>> THEN acc
  ELSE LET p == Head(parts) IN
    IF p = <<>> \/ p = <<".">> THEN CleanParts(Tail(parts), rooted, acc)
    ELSE IF p = <<".", ".">>
      THEN IF acc # <<>> /\ acc[Len(acc)] # <<".", ".">>
             THEN CleanParts(Tail(parts), rooted, Take(acc, Len(acc) - 1))
           ELSE IF rooted THEN CleanParts(Tail(parts), rooted, acc)
           ELSE CleanParts(Tail(parts), rooted, Append(acc, p))
    ELSE CleanParts(Tail(parts), rooted, Append(acc, p))

Clean(path) ==
  LET rooted == path # <<>> /\ Head(path) = "/"
      body == Join(CleanParts(Split(path, "/"), rooted, <<>>), <<"/">>)
  IN IF rooted THEN <<"/">> \o body
     ELSE IF body = <<>> THEN <<".">> ELSE body

\* the last element of strings.Split(filepath.Clean(path), "/")
LastPart(path) == LET parts == Split(Clean(path), "/") IN parts[Len(parts)]

\* regexp [^a-zA-Z0-9\-_] replaced by "-", character by character
IsIDChar(c) ==
  c \in Range(LowerChars) \cup Range(UpperChars) \cup Range(DigitChars) \cup {"-", "_"}

SlugChars(s) == [i \in 1..Len(s) |-> IF IsIDChar(s[i]) THEN s[i] ELSE "-"]

\* BackupManager.generateGameID: Split never returns an empty list, so the
\* "unknown-game-<time>" branch is dead
generateGameID(path) == Trim(SlugChars(ToLower(LastPart(path))), "-")

\* one word of inferGameName: upper-case first letter, the rest lower-case
Capitalize(w) == ToUpper(Take(w, 1)) \o ToLower(Drop(w, 1))

\* BackupManager.inferGameName
inferGameName(path) ==
  LET name == ReplaceAll(ReplaceAll(LastPart(path), <<"_">>, <<" ">>), <<"-">>, <<" ">>)
      words == Fields(name)
  IN Join([i \in 1..Len(words) |-> Capitalize(words[i])], <<" ">>)

\* ExpandPath without the tests of main.go 479, 485 and 489: an empty value
\* replaces the Unix placeholders as well
ExpandPathUnguarded(path, env) ==
  ReplaceAll(ReplaceAll(ReplaceAll(ReplaceAll(
    ReplaceAll(ReplaceAll(ReplaceAll(ReplaceAll(ReplaceAll(path,
      P_USERPROFILE, env["USERPROFILE"]),
      P_APPDATA, env["APPDATA"]),
      P_LOCALAPPDATA, env["LOCALAPPDATA"]),
      P_PROGRAMFILES, env["PROGRAMFILES"]),
      P_PROGRAMFILES_X86, env["PROGRAMFILES(X86)"]),
      <<"~">>, env["HOME"]),
      P_HOME, env["HOME"]),
      P_XDG_CONFIG_HOME, env["XDG_CONFIG_HOME"]),
      P_XDG_DATA_HOME, env["XDG_DATA_HOME"])

\* ExpandPath matching %APPDATA% in any case
ExpandPathAnyCase(path, env) ==
  LET e1 == ReplaceAll(path, P_USERPROFILE, env["USERPROFILE"])
      e2 == ReplaceAll(ReplaceAll(e1, P_APPDATA, env["APPDATA"]),
                       ToLower(P_APPDATA), env["APPDATA"])
      e3 == ReplaceAll(e2, P_LOCALAPPDATA, env["LOCALAPPDATA"])
      e4 == ReplaceAll(e3, P_PROGRAMFILES, env["PROGRAMFILES"])
      e5 == ReplaceAll(e4, P_PROGRAMFILES_X86, env["PROGRAMFILES(X86)"])
      e6 == IF env["HOME"] # <<>>
              THEN ReplaceAll(ReplaceAll(e5, <<"~">>, env["HOME"]), P_HOME, env["HOME"])
              ELSE e5
      e7 == IF env["XDG_CONFIG_HOME"] # <<>>
              THEN ReplaceAll(e6, P_XDG_CONFIG_HOME, env["XDG_CONFIG_HOME"])
              ELSE e6
  IN IF env["XDG_DATA_HOME"] # <<>>
       THEN ReplaceAll(e7, P_XDG_DATA_HOME, env["XDG_DATA_HOME"])
       ELSE e7

\* ExpandPath: env maps a variable name to its value, <<>> when unset or empty
ExpandPath(path, env) ==
  LET e1 == ReplaceAll(path, P_USERPROFILE, env["USERPROFILE"])
      e2 == ReplaceAll(e1, P_APPDATA, env["APPDATA"])
      e3 == ReplaceAll(e2, P_LOCALAPPDATA, env["LOCALAPPDATA"])
      e4 == ReplaceAll(e3, P_PROGRAMFILES, env["PROGRAMFILES"])
      e5 == ReplaceAll(e4, P_PROGRAMFILES_X86, env["PROGRAMFILES(X86)"])
      e6 == IF env["HOME"] # <<>>
              THEN ReplaceAll(ReplaceAll(e5, <<"~">>, env["HOME"]), P_HOME, env["HOME"])
              ELSE e5
      e7 == IF env["XDG_CONFIG_HOME"] # <<>>
              THEN ReplaceAll(e6, P_XDG_CONFIG_HOME, env["XDG_CONFIG_HOME"])
              ELSE e6
  IN IF env["XDG_DATA_HOME"] # <<>>
       THEN ReplaceAll(e7, P_XDG_DATA_HOME, env["XDG_DATA_HOME"])
       ELSE e7


EnvNames ==
  {"USERPROFILE", "APPDATA", "LOCALAPPDATA", "PROGRAMFILES", "PROGRAMFILES(X86)",
   "HOME", "XDG_CONFIG_HOME", "XDG_DATA_HOME"}

\* a file tree, in the order filepath.WalkDir visits it (lexical within a directory)
FsA ==
  <<[path |-> <<"/","a">>, isDir |-> TRUE, size |-> 0],
    [path |-> <<"/","a","/","E","l","d","e","n","R","i","n","g">>, isDir |-> TRUE, size |-> 0],
    [path |-> <<"/","a","/","E","l","d","e","n","R","i","n","g","/","E","R","0","0","0","0",".","s","l","2">>, isDir |-> FALSE, size |-> 5],
    [path |-> <<"/","c">>, isDir |-> TRUE, size |-> 0],
    [path |-> <<"/","c","/","F","o","o">>, isDir |-> TRUE, size |-> 0],
    [path |-> <<"/","c","/","F","o","o","/","a",".","s","a","v">>, isDir |-> FALSE, size |-> 2],
    [path |-> <<"/","c","/","x">>, isDir |-> TRUE, size |-> 0],
    [path |-> <<"/","c","/","x","/","f","o","o">>, isDir |-> TRUE, size |-> 0],
    [path |-> <<"/","c","/","x","/","f","o","o","/","b",".","s","a","v","e">>, isDir |-> FALSE, size |-> 1],
    [path |-> <<"/","u">>, isDir |-> TRUE, size |-> 0],
    [path |-> <<"/","u","/","D","o","c","u","m","e","n","t","s">>, isDir |-> TRUE, size |-> 0],
    [path |-> <<"/","u","/","D","o","c","u","m","e","n","t","s","/","M","y"," ","G","a","m","e","s">>, isDir |-> TRUE, size |-> 0],
    [path |-> <<"/","u","/","D","o","c","u","m","e","n","t","s","/","M","y"," ","G","a","m","e","s","/","E","l","d","e","n"," ","R","i","n","g">>, isDir |-> TRUE, size |-> 0],
    [path |-> <<"/","u","/","D","o","c","u","m","e","n","t","s","/","M","y"," ","G","a","m","e","s","/","E","l","d","e","n"," ","R","i","n","g","/","s","a","v","e","1",".","s","a","v">>, isDir |-> FALSE, size |-> 1],
    [path |-> <<"/","u","/","D","o","c","u","m","e","n","t","s","/","M","y"," ","G","a","m","e","s","/","F","o","o">>, isDir |-> TRUE, size |-> 0],
    [path |-> <<"/","u","/","D","o","c","u","m","e","n","t","s","/","M","y"," ","G","a","m","e","s","/","F","o","o","/","S","a","v","e","1",".","S","A","V">>, isDir |-> FALSE, size |-> 3],
    [path |-> <<"/","u","/","D","o","c","u","m","e","n","t","s","/","M","y"," ","G","a","m","e","s","/","F","o","o","/","n","o","t","e","s",".","m","d">>, isDir |-> FALSE, size |-> 1],
    [path |-> <<"/","u","/","D","o","c","u","m","e","n","t","s","/","M","y"," ","G","a","m","e","s","/","F","o","o","/","s","a","v","e",".","t","m","p">>, isDir |-> FALSE, size |-> 1],
    [path |-> <<"/","u","/","D","o","c","u","m","e","n","t","s","/","M","y"," ","G","a","m","e","s","/","F","o","o","/","s","u","b">>, isDir |-> TRUE, size |-> 0],
    [path |-> <<"/","u","/","D","o","c","u","m","e","n","t","s","/","M","y"," ","G","a","m","e","s","/","F","o","o","/","s","u","b","/","s","l","o","t",".","d","a","t">>, isDir |-> FALSE, size |-> 4]>>

\* the same machine later: Elden Ring gone, other saves written
FsB ==
  <<[path |-> <<"/","c">>, isDir |-> TRUE, size |-> 0],
    [path |-> <<"/","c","/","F","o","o">>, isDir |-> TRUE, size |-> 0],
    [path |-> <<"/","c","/","F","o","o","/","a",".","s","a","v">>, isDir |-> FALSE, size |-> 7],
    [path |-> <<"/","c","/","F","o","o","/","b",".","s","a","v">>, isDir |-> FALSE, size |-> 1],
    [path |-> <<"/","l">>, isDir |-> TRUE, size |-> 0],
    [path |-> <<"/","l","/","P","a","c","k","a","g","e","s">>, isDir |-> TRUE, size |-> 0],
    [path |-> <<"/","l","/","P","a","c","k","a","g","e","s","/","f","o","o">>, isDir |-> TRUE, size |-> 0],
    [path |-> <<"/","l","/","P","a","c","k","a","g","e","s","/","f","o","o","/","u","s","e","r",".","c","f","g">>, isDir |-> FALSE, size |-> 2],
    [path |-> <<"/","u">>, isDir |-> TRUE, size |-> 0],
    [path |-> <<"/","u","/","D","o","c","u","m","e","n","t","s">>, isDir |-> TRUE, size |-> 0],
    [path |-> <<"/","u","/","D","o","c","u","m","e","n","t","s","/","M","y"," ","G","a","m","e","s">>, isDir |-> TRUE, size |-> 0],
    [path |-> <<"/","u","/","D","o","c","u","m","e","n","t","s","/","M","y"," ","G","a","m","e","s","/","F","o","o">>, isDir |-> TRUE, size |-> 0],
    [path |-> <<"/","u","/","D","o","c","u","m","e","n","t","s","/","M","y"," ","G","a","m","e","s","/","F","o","o","/","S","a","v","e","1",".","S","A","V">>, isDir |-> FALSE, size |-> 9]>>

\* the environment of the process: os.Getenv per variable, <<>> when unset
MainEnv ==
  [v \in EnvNames |-> CASE v = "USERPROFILE" -> <<"/","u">>
                       [] v = "APPDATA" -> <<"/","a">>
                       [] v = "LOCALAPPDATA" -> <<"/","l">>
                       [] v = "HOME" -> <<"/","h">>
                       [] OTHER -> <<>>]

\* "menos de 20 archivos" (main.go 644)
SmallDirLimit == 20

(***************************************************************************)
(* The file system the saves live in: a sequence of nodes in walk order.   *)
(***************************************************************************)
\* os.Stat(path) returns no error
Exists(fs, path) == \E i \in 1..Len(fs) : fs[i].path = Clean(path)

DirPrefix(dir) == IF Clean(dir) = <<"/">> THEN <<"/">> ELSE Clean(dir) \o <<"/">>

\* the nodes filepath.WalkDir(root, fn) hands to fn, in order; none when root is missing
\* (fn then gets the error and returns nil)
WalkDir(fs, root) ==
  SelectSeq(fs, LAMBDA n : n.path = Clean(root) \/ HasPrefix(n.path, DirPrefix(root)))

\* filepath.Rel(root, path) for a path the walk of root visits
Rel(root, path) == IF path = Clean(root) THEN <<".">> ELSE Drop(path, Len(DirPrefix(root)))

\* os.ReadDir(dir): the immediate entries, sorted by name; err when dir is no directory
ReadDir(fs, dir) ==
  LET isDir == \E i \in 1..Len(fs) : fs[i].path = Clean(dir) /\ fs[i].isDir
      kids == SelectSeq(fs, LAMBDA n :
                /\ HasPrefix(n.path, DirPrefix(dir))
                /\ Len(n.path) > Len(DirPrefix(dir))
                /\ "/" \notin Range(Drop(n.path, Len(DirPrefix(dir)))))
  IN IF isDir
       THEN [err |-> FALSE,
             entries |-> [i \in 1..Len(kids) |->
                            [name |-> LastPart(kids[i].path), isDir |-> kids[i].isDir]]]
       ELSE [err |-> TRUE, entries |-> <<>>]

(***************************************************************************)
(* looksLikeSaveDirectory (main.go 605-645).                               *)
(***************************************************************************)
\* lines 624-629: the file name matches one of SaveFilePatterns
MatchesSavePattern(fileName) ==
  \E i \in 1..Len(SaveFilePatterns) : Match(ToLower(SaveFilePatterns[i]), fileName)

\* lines 632-638: the file name contains one of the keywords
HasSaveKeyword(fileName) ==
  \E i \in 1..Len(SaveKeywords) : Contains(fileName, SaveKeywords[i])

\* a faulty loop: directories are scored like files
EntryScoreWithDirs(e) ==
  (IF MatchesSavePattern(ToLower(e.name)) THEN 1 ELSE 0)
  + (IF HasSaveKeyword(ToLower(e.name)) THEN 1 ELSE 0)

\* what one entry adds to saveFileCount
EntryScore(e) ==
  IF e.isDir THEN 0
  ELSE (IF MatchesSavePattern(ToLower(e.name)) THEN 1 ELSE 0)
       + (IF HasSaveKeyword(ToLower(e.name)) THEN 1 ELSE 0)

RECURSIVE SaveFileCount(_)
SaveFileCount(entries) ==
  IF entries = <<>> THEN 0 ELSE EntryScore(Head(entries)) + SaveFileCount(Tail(entries))

TotalFiles(entries) == Len(SelectSeq(entries, LAMBDA e : ~e.isDir))

\* line 644
SaveDirRule(saveFileCount, totalFiles) ==
  saveFileCount >= 1 \/ (totalFiles > 0 /\ totalFiles < SmallDirLimit /\ saveFileCount > 0)

\* listing: what os.ReadDir returned
looksLikeSaveDirectory(listing) ==
  IF listing.err THEN FALSE
  ELSE SaveDirRule(SaveFileCount(listing.entries), TotalFiles(listing.entries))

(***************************************************************************)
(* Pattern selection and statistics.                                       *)
(***************************************************************************)
\* BackupManager.matchesPatterns
matchesPatterns(filename, patterns) ==
  \E i \in 1..Len(patterns) : Match(ToLower(patterns[i]), ToLower(filename))

\* a faulty isExcluded: nothing is excluded
NeverExcluded(filename, excludePatterns) == FALSE

\* BackupManager.isExcluded
isExcluded(filename, excludePatterns) ==
  \E i \in 1..Len(excludePatterns) : Match(ToLower(excludePatterns[i]), ToLower(filename))

\* the condition of the walk callbacks (lines 695, 802, 840)
Selected(n, game, excludePatterns) ==
  /\ ~n.isDir
  /\ matchesPatterns(LastPart(n.path), game.Patterns)
  /\ ~isExcluded(LastPart(n.path), excludePatterns)

RECURSIVE SumSizes(_)
SumSizes(nodes) == IF nodes = <<>> THEN 0 ELSE Head(nodes).size + SumSizes(Tail(nodes))

\* the file trees the save paths are looked up in
FsConfigs == <<FsA, FsB>>

\* NewBackupManager (main.go 446): Config.ExcludePatterns
DefaultExcludePatterns ==
  <<<<"*",".","t","m","p">>, <<"*",".","l","o","g">>,
    <<"*",".","c","a","c","h","e">>, <<"*",".","l","o","c","k">>>>

\* the savePath arguments of AddCustomGame: two directories of FsA deriving the same
\* id (one of them missing in FsB) and a path in neither tree
PathInputs ==
  {<<"/","c","/","F","o","o">>,
   <<"/","c","/","x","/","f","o","o">>,
   <<"/","n","o","n","e","x","i","s","t","e","n","t","/","p","a","t","h">>}

\* a save path that is a file, in both trees
FileInputs == {<<"/","c","/","F","o","o","/","a",".","s","a","v">>}

\* the patterns arguments of AddCustomGame
PatternInputs ==
  {<<<<"*",".","s","a","v">>>>,
   <<<<"*",".","S","A","V","E">>, <<"?",".","s","a","v">>>>}

\* scanDirectory, lines 581 and 588: the id and the name of the record a save directory gets
Candidate(path) ==
  [path |-> path, gameID |-> generateGameID(path), name |-> inferGameName(path)]

\* scanDirectory, lines 568-579: the directories of the walk that look like save directories
SaveDirsUnder(fs, path) ==
  IF ~Exists(fs, path) THEN <<>>
  ELSE LET dirs == SelectSeq(WalkDir(fs, path),
                     LAMBDA n : n.isDir /\ looksLikeSaveDirectory(ReadDir(fs, n.path)))
       IN [i \in 1..Len(dirs) |-> Candidate(dirs[i].path)]

Platforms == DOMAIN CommonSavePaths

\* the save directories below every root of CommonSavePaths, per file tree
FoundUnderRoots ==
  Tabulate([k \in 1..Len(FsConfigs) |->
    Tabulate([p \in Platforms |->
      Tabulate([i \in 1..Len(CommonSavePaths[p]) |->
        SaveDirsUnder(FsConfigs[k], ExpandPath(CommonSavePaths[p][i], MainEnv))])])])

\* the walk of one save path with the condition of the callbacks
SelectedUnder(path, patterns, fs, env, excludePatterns) ==
  SelectSeq(WalkDir(fs, ExpandPath(path, env)),
            LAMBDA n : Selected(n, [Patterns |-> patterns], excludePatterns))

\* the save paths, patterns and exclusions the model's records and inputs can hold
WalkPaths ==
  UNION { Range(KnownGamesTable[i].SavePaths) : i \in 1..Len(KnownGamesTable) }
  \cup PathInputs \cup FileInputs
  \cup UNION { UNION { { c.path : c \in Range(FoundUnderRoots[k][p][i]) } :
                         i \in DOMAIN CommonSavePaths[p] } :
                 k \in 1..Len(FsConfigs), p \in Platforms }

WalkPatterns ==
  { KnownGamesTable[i].Patterns : i \in 1..Len(KnownGamesTable) }
  \cup {SaveFilePatterns} \cup PatternInputs

WalkExcludes == {DefaultExcludePatterns, <<>>}

\* SelectedUnder tabulated for the file trees of the model
WalkTable ==
  Tabulate([fs \in Range(FsConfigs) |->
    Tabulate([path \in WalkPaths |->
      Tabulate([patterns \in WalkPatterns |->
        Tabulate([excludePatterns \in WalkExcludes |->
          SelectedUnder(path, patterns, fs, MainEnv, excludePatterns)])])])])

Walk(path, patterns, fs, env, excludePatterns) ==
  IF env = MainEnv
    THEN WalkTable[fs][path][patterns][excludePatterns]
    ELSE SelectedUnder(path, patterns, fs, env, excludePatterns)

\* the selected nodes of every save path, save path after save path
RECURSIVE SelectedNodes(_, _, _, _, _)
SelectedNodes(paths, game, fs, env, excludePatterns) ==
  IF paths = <<>> THEN <<>>
  ELSE Walk(Head(paths), game.Patterns, fs, env, excludePatterns)
       \o SelectedNodes(Tail(paths), game, fs, env, excludePatterns)

\* lines 699-700 and 707-708: the sizes added up and the files counted
WithStats(game, nodes) ==
  [game EXCEPT !.TotalSize = SumSizes(nodes), !.FileCount = Len(nodes)]

\* BackupManager.updateGameInfo: never returns an error (the callback returns nil)
updateGameInfo(game, fs, env, excludePatterns) ==
  WithStats(game, SelectedNodes(game.SavePaths, game, fs, env, excludePatterns))

\* BackupManager.gameExists
gameExists(game, fs, env) ==
  \E i \in 1..Len(game.SavePaths) : Exists(fs, ExpandPath(game.SavePaths[i], env))

(***************************************************************************)
(* Snapshots (main.go 784-861).  failAt = k > 0: the k-th file written     *)
(* fails (zipWriter.Create, os.Open, io.Copy, MkdirAll or copyFile);       *)
(* failAt = 0: no write fails.                                             *)
(***************************************************************************)
\* filepath.Rel(savePath, path) of every selected file (lines 805-808)
RelNames(root, sel) == [i \in 1..Len(sel) |-> Rel(root, sel[i].path)]

\* the archive entry names createZipBackup writes, in order
RECURSIVE ZipEntries(_, _, _, _, _)
ZipEntries(paths, game, fs, env, excludePatterns) ==
  IF paths = <<>> THEN <<>>
  ELSE RelNames(ExpandPath(Head(paths), env),
                Walk(Head(paths), game.Patterns, fs, env, excludePatterns))
       \o ZipEntries(Tail(paths), game, fs, env, excludePatterns)

\* a faulty createZipBackup: the errors of the writes are swallowed
ZipWrittenAll(all, failAt) == [ok |-> TRUE, entries |-> all]

\* the archive after the writes: all entries, or those before the failing write
ZipWritten(all, failAt) ==
  IF failAt \in 1..Len(all)
    THEN [ok |-> FALSE, entries |-> Take(all, failAt - 1)]
    ELSE [ok |-> TRUE, entries |-> all]

\* BackupManager.createZipBackup once os.Create(zipPath) succeeded
createZipBackup(game, fs, env, excludePatterns, failAt) ==
  ZipWritten(ZipEntries(game.SavePaths, game, fs, env, excludePatterns), failAt)

\* filepath.Join(backupPath, relPath) of every selected file, relative to backupPath
\* (lines 843-848)
DestNames(root, sel) == [i \in 1..Len(sel) |-> Clean(Rel(root, sel[i].path))]

\* the destination paths createFolderBackup copies to, in order
RECURSIVE FolderCopies(_, _, _, _, _)
FolderCopies(paths, game, fs, env, excludePatterns) ==
  IF paths = <<>> THEN <<>>
  ELSE DestNames(ExpandPath(Head(paths), env),
                 Walk(Head(paths), game.Patterns, fs, env, excludePatterns))
       \o FolderCopies(Tail(paths), game, fs, env, excludePatterns)

\* the distinct elements of s in the order of their first occurrence
RECURSIVE Dedup(_)
Dedup(s) ==
  IF s = <<>> THEN <<>>
  ELSE LET d == Dedup(Take(s, Len(s) - 1))
       IN IF s[Len(s)] \in Range(d) THEN d ELSE Append(d, s[Len(s)])

\* the first copy that fails: the injected one, or a copy onto backupPath itself
\* (relPath "." when the save path is a file: os.Create of a directory fails)
FirstFailure(copies, failAt) ==
  LET bad == { i \in 1..Len(copies) : i = failAt \/ copies[i] = <<".">> }
  IN IF bad = {} THEN 0 ELSE CHOOSE i \in bad : \A j \in bad : i <= j

\* the folder after the copies: all files, or those before the k-th copy, which fails
FolderWritten(all, k) ==
  IF k > 0
    THEN [ok |-> FALSE, files |-> Dedup(Take(all, k - 1))]
    ELSE [ok |-> TRUE, files |-> Dedup(all)]

CopyAll(all, failAt) == FolderWritten(all, FirstFailure(all, failAt))

\* BackupManager.createFolderBackup once os.MkdirAll(backupPath) succeeded
createFolderBackup(game, fs, env, excludePatterns, failAt) ==
  CopyAll(FolderCopies(game.SavePaths, game, fs, env, excludePatterns), failAt)


(***************************************************************************)
(* Bounds of the model.                                                    *)
(***************************************************************************)
\* operations per behaviour
MaxSteps == 2

\* seconds the clock can reach (one digit of the timestamp)
MaxTime == 2

\* largest MaxBackups the settings dialog is given
MaxKeep == 1

\* the file writes of one snapshot a failure is injected at
MaxFail == 2

\* SpecPrune: the modification times of the entries of a backup directory
MaxMtime == 3

\* SpecPrune: the values of Config.MaxBackups
MaxPruneKeep == 2

\* SpecClassify: the files of a listing that match no pattern and no keyword
MaxFiller == 25

\* SpecParse: the lines of a markup
MaxLines == 3

\* SpecExpand: the pieces of a path
MaxPieces == 2

\* SpecSearch: the candidates a structured query returns
MaxCandidates == 2

\* SpecBatch: the names of a batch
MaxNames == 3

\* SpecScan: the directories without permissions
MaxDenied == 2

\* SpecRace: the calls made next to one scan
MaxCalls == 1

\* time.Time{}: the LastBackup of a record never backed up
ZeroTime == 0

\* NewBackupManager: MaxBackups
DefaultMaxBackups == 10

(***************************************************************************)
(* The backup directory: a set of nodes.  dir is the name of the directory *)
(* below Config.BackupDir that holds the node (<<>>: BackupDir itself),    *)
(* entries the files of an archive or of a mirrored folder.                *)
(***************************************************************************)
\* filepath.Join(bm.Config.BackupDir, gameID), relative to BackupDir
BackupDirOf(gameID) == Clean(gameID)

DirKey(gameID) == IF BackupDirOf(gameID) = <<".">> THEN <<>> ELSE BackupDirOf(gameID)

HasNode(fsb, dir, name) == \E n \in fsb : n.dir = dir /\ n.name = name

\* os.MkdirAll(backupDir): creates the directory when it is missing
MkdirAll(fsb, key, t) ==
  IF key = <<>> \/ HasNode(fsb, <<>>, key) THEN fsb
  ELSE fsb \cup {[dir |-> <<>>, name |-> key, mtime |-> t, kind |-> "dir",
                  entries |-> <<>>, complete |-> TRUE]}

\* the directory holding a changed entry gets a new modification time
Touch(fsb, key, t) ==
  { IF n.dir = <<>> /\ n.name = key /\ key # <<>> THEN [n EXCEPT !.mtime = t] ELSE n : n \in fsb }

\* os.Create(zipPath) and the writes of the archive: an existing file is truncated
WriteZip(fsb, key, name, entries, complete, t) ==
  LET fresh == ~HasNode(fsb, key, name)
      kept == { n \in fsb : ~(n.dir = key /\ n.name = name) }
      node == [dir |-> key, name |-> name, mtime |-> t, kind |-> "zip",
               entries |-> entries, complete |-> complete]
  IN IF fresh THEN Touch(kept, key, t) \cup {node} ELSE kept \cup {node}

\* os.MkdirAll(backupPath) and the copies into it: an existing folder keeps its files
WriteFolder(fsb, key, name, files, complete, t) ==
  LET old == { n \in fsb : n.dir = key /\ n.name = name }
      before == IF old = {} THEN <<>> ELSE (CHOOSE n \in old : TRUE).entries
      kept == fsb \ old
      node == [dir |-> key, name |-> name, mtime |-> t, kind |-> "folder",
               entries |-> Dedup(before \o files), complete |-> complete]
  IN IF old = {} THEN Touch(kept, key, t) \cup {node} ELSE kept \cup {node}

\* os.RemoveAll(filepath.Join(backupDir, name))
RemoveAll(fsb, key, name) ==
  { n \in fsb : ~(n.dir = key /\ n.name = name) /\ ~(key = <<>> /\ n.dir = name) }

RECURSIVE RemoveEach(_, _, _)
RemoveEach(fsb, key, doomed) ==
  IF doomed = <<>> THEN fsb
  ELSE RemoveEach(RemoveAll(fsb, key, Head(doomed).name), key, Tail(doomed))

Perms(S) ==
  { f \in [1..Cardinality(S) -> S] : \A i, j \in 1..Cardinality(S) : i # j => f[i] # f[j] }

\* lines 891-896: the entries of the directory whose name contains gameID
BackupFiles(fsb, gameID) ==
  { n \in fsb : n.dir = DirKey(gameID) /\ Contains(n.name, gameID) }

\* a faulty sort: oldest first
SortedAscending(files) ==
  { f \in Perms(files) : \A i \in 1..(Len(f) - 1) : ~(f[i + 1].mtime < f[i].mtime) }

\* lines 903-907: every order sort.Slice may leave (it is not stable): most recent first
SortedOrders(files) ==
  { f \in Perms(files) : \A i \in 1..(Len(f) - 1) : ~(f[i + 1].mtime > f[i].mtime) }

\* os.ReadDir(backupDir) fails when the directory is missing
BackupDirMissing(fsb, gameID) == DirKey(gameID) # <<>> /\ ~HasNode(fsb, <<>>, DirKey(gameID))

\* BackupManager.cleanOldBackups; readErr: os.ReadDir fails, sorted: one of SortedOrders
cleanOldBackups(fsb, gameID, maxBackups, readErr, sorted, t) ==
  IF readErr \/ BackupDirMissing(fsb, gameID) THEN [fsb |-> fsb, err |-> TRUE]
  ELSE IF Len(sorted) <= maxBackups THEN [fsb |-> fsb, err |-> FALSE]
  ELSE [fsb |-> Touch(RemoveEach(fsb, DirKey(gameID), Drop(sorted, maxBackups)),
                      DirKey(gameID), t),
        err |-> FALSE]

(***************************************************************************)
(* Formatting of the backup name (main.go 754-763).                        *)
(***************************************************************************)
\* time.Now().Format("2006-01-02_15-04-05"): the clock counts the seconds of one minute
Timestamp(t) ==
  <<"2","0","2","6","-","1","1","-","0","3","_","0","0","-","0","0","-","0">>
  \o <<DigitChars[t + 1]>>

ZipName(id, t) == id \o <<"_">> \o Timestamp(t) \o <<".","z","i","p">>

FolderName(id, t) == id \o <<"_">> \o Timestamp(t)

(***************************************************************************)
(* State.                                                                  *)
(***************************************************************************)
VARIABLES
  DetectedGames,  \* bm.DetectedGames: id -> GameInfo
  Config,         \* bm.Config
  db,             \* the content of game_saves.json
  bfs,            \* the tree below Config.BackupDir
  fsIdx,          \* which of FsConfigs the save directories are in
  now,            \* time.Now(), in seconds
  mclock,         \* the modification time the next write gets
  steps,          \* operations called so far
  last,           \* the last operation: its arguments, what it returned, the state before
  probe           \* input and result of a function applied on its own

vars == <<DetectedGames, Config, db, bfs, fsIdx, now, mclock, steps, last, probe>>

FS == FsConfigs[fsIdx]

\* NewBackupManager (main.go 440-448)
DefaultConfig ==
  [BackupDir |-> "WineSaveBackups", MaxBackups |-> DefaultMaxBackups,
   CompressionEnabled |-> TRUE, ExcludePatterns |-> DefaultExcludePatterns]

\* make(map[string]*GameInfo)
NoGames == [k \in {} |-> <<>>]

NoOp ==
  [op |-> "none", arg |-> <<>>, in |-> <<>>, ret |-> "ok", events |-> <<>>,
   pre |-> NoGames, preDb |-> NoGames, preBfs |-> {}, preFs |-> 1, preNow |-> ZeroTime,
   out |-> <<>>]

NoProbe == [kind |-> "none"]

\* what the last operation was given, what it found, did and returned
Result(op, arg, in, ret, events, out) ==
  [op |-> op, arg |-> arg, in |-> in, ret |-> ret, events |-> events,
   pre |-> DetectedGames, preDb |-> db, preBfs |-> bfs, preFs |-> fsIdx, preNow |-> now,
   out |-> out]

\* a faulty insert: the other records are dropped
PutAlone(games, id, game) ==
  (id :> game)

\* map insert: DetectedGames[id] = game
Put(games, id, game) ==
  (id :> game) @@ games

\* a faulty delete: the map is emptied
DeleteAll(games, id) == [k \in {} |-> <<>>]

\* delete(DetectedGames, id)
Delete(games, id) == [k \in DOMAIN games \ {id} |-> games[k]]

\* a faulty SaveDatabase: nothing is written
SaveDatabaseSkipped(games, file, writeOk) == file

\* BackupManager.SaveDatabase: the file is rewritten when os.WriteFile succeeds
SaveDatabase(games, file, writeOk) == IF writeOk THEN games ELSE file

\* the record AddCustomGame builds (lines 1020-1028)
CustomGame(name, savePath, patterns) ==
  [ID |-> generateGameID(savePath), Name |-> name, Platform |-> "custom",
   SavePaths |-> <<savePath>>, Patterns |-> patterns,
   CustomPaths |-> <<savePath>>, Metadata |-> {},
   LastBackup |-> ZeroTime, TotalSize |-> 0, FileCount |-> 0]

\* what LoadConfig reads when config.json exists (lines 455-459)
LoadedConfig ==
  [BackupDir |-> "WineSaveBackups", MaxBackups |-> 1,
   CompressionEnabled |-> FALSE, ExcludePatterns |-> <<>>]

\* what LoadDatabase reads when game_saves.json exists (lines 461-464): the file an
\* earlier run wrote after AddCustomGame("Foo", "/c/Foo", ["*.sav"])
LoadedGames ==
  LET game == CustomGame(<<"F","o","o">>, <<"/","c","/","F","o","o">>,
                         <<<<"*",".","s","a","v">>>>)
  IN Put(NoGames, game.ID, updateGameInfo(game, FsA, MainEnv, LoadedConfig.ExcludePatterns))

\* NewBackupManager: a fresh process without config.json and game_saves.json, or one
\* that loads both; the backup directory is empty
Init ==
  /\ \/ Config = DefaultConfig /\ DetectedGames = NoGames
     \/ Config = LoadedConfig /\ DetectedGames = LoadedGames
  /\ db = DetectedGames
  /\ bfs = {}
  /\ fsIdx = 1
  /\ now = 1
  /\ mclock = 1
  /\ steps = 0
  /\ last = NoOp
  /\ probe = NoProbe


(***************************************************************************)
(* ScanForGames (main.go 497-553).                                         *)
(***************************************************************************)
\* lines 508-525 for one known game
\* gameExists of every KnownGames entry, per file tree
KnownPresent ==
  Tabulate([k \in 1..Len(FsConfigs) |->
    Tabulate([i \in 1..Len(KnownGamesTable) |->
      gameExists(KnownGamesTable[i], FsConfigs[k], MainEnv)])])

\* lines 512-524: one entry of KnownGames
AddKnown(acc, game, present) ==
  IF game.ID \notin DOMAIN acc.games /\ present
    THEN [games |-> Put(acc.games, game.ID,
                        [ID |-> game.ID, Name |-> game.Name, Platform |-> game.Platform,
                         SavePaths |-> game.SavePaths, Patterns |-> game.Patterns,
                         CustomPaths |-> <<>>, Metadata |-> game.Metadata,
                         LastBackup |-> ZeroTime, TotalSize |-> 0, FileCount |-> 0]),
          newGames |-> Append(acc.newGames, game.ID)]
    ELSE acc

\* lines 508-525: present[i] is gameExists of the i-th entry
RECURSIVE AddKnownGames(_, _, _)
AddKnownGames(acc, present, i) ==
  IF i > Len(KnownGamesTable) THEN acc
  ELSE AddKnownGames(AddKnown(acc, KnownGamesTable[i], present[i]), present, i + 1)

\* a faulty scanDirectory: no look-up of the id before the insert
RECURSIVE scanDirectoryOverwriting(_, _, _)
scanDirectoryOverwriting(acc, found, platform) ==
  IF found = <<>> THEN acc
  ELSE scanDirectoryOverwriting(
         [games |-> Put(acc.games, Head(found).gameID,
                        [ID |-> Head(found).gameID, Name |-> Head(found).name,
                         Platform |-> platform, SavePaths |-> <<Head(found).path>>,
                         Patterns |-> SaveFilePatterns, CustomPaths |-> <<>>,
                         Metadata |-> {}, LastBackup |-> ZeroTime,
                         TotalSize |-> 0, FileCount |-> 0]),
          newGames |-> Append(acc.newGames, Head(found).gameID)],
         Tail(found), platform)

\* scanDirectory, lines 580-596, for the save directories found
RECURSIVE scanDirectory(_, _, _)
scanDirectory(acc, found, platform) ==
  IF found = <<>> THEN acc
  ELSE IF Head(found).gameID \in DOMAIN acc.games
    THEN scanDirectory(acc, Tail(found), platform)
    ELSE scanDirectory(
           [games |-> Put(acc.games, Head(found).gameID,
                          [ID |-> Head(found).gameID, Name |-> Head(found).name,
                           Platform |-> platform, SavePaths |-> <<Head(found).path>>,
                           Patterns |-> SaveFilePatterns, CustomPaths |-> <<>>,
                           Metadata |-> {}, LastBackup |-> ZeroTime,
                           TotalSize |-> 0, FileCount |-> 0]),
            newGames |-> Append(acc.newGames, Head(found).gameID)],
           Tail(found), platform)

\* lines 529-534: the base paths of one platform; found[platform][i] holds the save
\* directories the walk of the i-th base path comes across
RECURSIVE ScanPaths(_, _, _, _)
ScanPaths(acc, found, platform, i) ==
  IF i > Len(CommonSavePaths[platform]) THEN acc
  ELSE ScanPaths(scanDirectory(acc, found[platform][i], platform),
                 found, platform, i + 1)

\* line 528: the platforms in the order the map iteration yields them
RECURSIVE ScanFrom(_, _, _, _)
ScanFrom(acc, found, order, j) ==
  IF j > Len(order) THEN acc
  ELSE ScanFrom(ScanPaths(acc, found, order[j], 1), found, order, j + 1)

ScanPlatforms(acc, found, order) == ScanFrom(acc, found, order, 1)

\* the platforms in the order of the CommonSavePaths literal
DeclaredOrder == <<"steam", "epic", "uplay", "origin", "gog", "xbox">>

Rotate(s, r) == [i \in 1..Len(s) |-> s[((i + r - 1) % Len(s)) + 1]]

\* the order of a range over a Go map is unspecified: the orders the model draws
\* from let every platform come first
PlatformOrders == { Rotate(DeclaredOrder, r) : r \in 0..(Len(DeclaredOrder) - 1) }

\* lines 538-544: updateGameInfo of every record
RefreshAll(games, fs, env, excludePatterns) ==
  [id \in DOMAIN games |-> updateGameInfo(games[id], fs, env, excludePatterns)]

ScanForGames(order, writeOk) ==
  \E withKnown \in {AddKnownGames([games |-> DetectedGames, newGames |-> <<>>],
                                   KnownPresent[fsIdx], 1)} :
  \E scanned \in {ScanPlatforms(withKnown, FoundUnderRoots[fsIdx], order)} :
  \E refreshed \in {RefreshAll(scanned.games, FS, MainEnv, Config.ExcludePatterns)} :
     /\ steps < MaxSteps
     /\ DetectedGames' = refreshed
     /\ db' = SaveDatabase(refreshed, db, writeOk)
     /\ steps' = steps + 1
     /\ last' = Result("ScanForGames", <<>>, [writeOk |-> writeOk],
                       IF writeOk THEN "ok" ELSE "saveerror",
                       <<"known", "scan", "refresh", "save">>,
                       [TotalGames |-> Cardinality(DOMAIN refreshed),
                        NewGames |-> scanned.newGames,
                        Updated |-> DOMAIN refreshed,
                        Errors |-> <<>>])
     /\ UNCHANGED <<Config, bfs, fsIdx, now, mclock, probe>>

(***************************************************************************)
(* Inputs of the operations.                                               *)
(***************************************************************************)
\* an id no record is stored under
UnknownID == <<"g","h","o","s","t">>

IdInputs == DOMAIN DetectedGames \cup {UnknownID}

NameInputs == {<<"F","o","o">>}

\* where a CreateBackup call fails: nowhere, at os.MkdirAll(backupDir), at os.Create(zipPath)
\* or os.MkdirAll(backupPath), or at the k-th file written
FailInputs ==
  {[at |-> "none", k |-> 0], [at |-> "mkdir", k |-> 0], [at |-> "create", k |-> 0]}
  \cup {[at |-> "file", k |-> i] : i \in 1..MaxFail}

\* the faults after the snapshot (os.ReadDir in cleanOldBackups, os.WriteFile in
\* SaveDatabase) are only reached when the snapshot succeeds
LaterFaults(fail) == IF fail.at = "none" THEN BOOLEAN ELSE {FALSE}

ConfigInputs ==
  {[BackupDir |-> "WineSaveBackups", MaxBackups |-> m, CompressionEnabled |-> c,
    ExcludePatterns |-> e] :
     m \in 0..MaxKeep, c \in BOOLEAN, e \in {DefaultExcludePatterns, <<>>}}

(***************************************************************************)
(* AddCustomGame (main.go 1011-1038).                                      *)
(***************************************************************************)
\* a faulty AddCustomGame: the record is inserted and saved before os.Stat is consulted
AddCustomGameUnchecked(name, savePath, patterns, writeOk) ==
  \E games \in {Put(DetectedGames, generateGameID(savePath),
                    updateGameInfo(CustomGame(name, savePath, patterns), FS, MainEnv,
                                   Config.ExcludePatterns))} :
     /\ steps < MaxSteps
     /\ steps' = steps + 1
     /\ DetectedGames' = games
     /\ db' = SaveDatabase(games, db, writeOk)
     /\ last' = Result("AddCustomGame",
                       [name |-> name, savePath |-> savePath, patterns |-> patterns],
                       [writeOk |-> writeOk],
                       IF ~Exists(FS, ExpandPath(savePath, MainEnv)) THEN "notexist"
                       ELSE IF writeOk THEN "ok" ELSE "saveerror",
                       <<"insert", "refresh", "save", "stat">>, <<>>)
     /\ UNCHANGED <<Config, bfs, fsIdx, now, mclock, probe>>

AddCustomGame(name, savePath, patterns, writeOk) ==
  LET gameID == generateGameID(savePath)
      expandedPath == ExpandPath(savePath, MainEnv)
      game == CustomGame(name, savePath, patterns)
      games == Put(DetectedGames, gameID,
                   updateGameInfo(game, FS, MainEnv, Config.ExcludePatterns))
      arg == [name |-> name, savePath |-> savePath, patterns |-> patterns]
  IN /\ steps < MaxSteps
     /\ steps' = steps + 1
     /\ IF ~Exists(FS, expandedPath)
          THEN /\ last' = Result("AddCustomGame", arg, <<>>, "notexist", <<"stat">>, <<>>)
               /\ UNCHANGED <<DetectedGames, db>>
          ELSE /\ DetectedGames' = games
               /\ db' = SaveDatabase(games, db, writeOk)
               /\ last' = Result("AddCustomGame", arg, [writeOk |-> writeOk],
                                 IF writeOk THEN "ok" ELSE "saveerror",
                                 <<"stat", "insert", "refresh", "save">>, <<>>)
     /\ UNCHANGED <<Config, bfs, fsIdx, now, mclock, probe>>

(***************************************************************************)
(* AddGameFromPCGW (main.go 1046-1104).                                    *)
(***************************************************************************)
\* a search result the user picked: its page documents one save path
WikiGame ==
  [PageID |-> "4242", SteamAppID |-> "1245620", ReleaseDate |-> "2022", CoverURL |-> "",
   SavePaths |-> <<<<"%","U","S","E","R","P","R","O","F","I","L","E","%","/","D","o","c","u","m","e","n","t","s","/","M","y"," ","G","a","m","e","s","/","F","o","o">>>>]

\* UserGameSelection: SelectedGame is <<>> for nil, CustomPath is <<>> for ""
SelectionInputs ==
  { [Name |-> name, SelectedGame |-> selected, CustomPath |-> customPath] :
      name \in NameInputs, selected \in {<<>>, <<WikiGame>>},
      customPath \in {<<>>, <<"/","c","/","F","o","o">>,
                      <<"/","n","o","n","e","x","i","s","t","e","n","t","/","p","a","t","h">>} }

\* lines 1062-1065: the metadata of the selected game
SelectedMetadata(selected) ==
  IF selected = <<>> THEN {}
  ELSE {<<"pcgw_page_id", selected[1].PageID>>, <<"steam_app_id", selected[1].SteamAppID>>,
        <<"release_date", selected[1].ReleaseDate>>, <<"cover_url", selected[1].CoverURL>>}

\* lines 1068-1071: the save paths of the selected game, expanded
SelectedPaths(selected, env) ==
  IF selected = <<>> THEN <<>>
  ELSE [i \in 1..Len(selected[1].SavePaths) |-> ExpandPath(selected[1].SavePaths[i], env)]

\* lines 1075-1079: the custom path, expanded
CustomPathOf(selection, env) ==
  IF selection.CustomPath = <<>> THEN <<>> ELSE <<ExpandPath(selection.CustomPath, env)>>

\* a faulty record: the custom path is tracked in CustomPaths only
SelectedGameInfoCustomApart(selection, env) ==
  [ID |-> generateGameID(selection.Name), Name |-> selection.Name, Platform |-> "pcgw",
   SavePaths |-> SelectedPaths(selection.SelectedGame, env),
   Patterns |-> SaveFilePatterns,
   CustomPaths |-> CustomPathOf(selection, env),
   Metadata |-> SelectedMetadata(selection.SelectedGame),
   LastBackup |-> ZeroTime, TotalSize |-> 0, FileCount |-> 0]

\* lines 1047-1079: the record built from the selection
SelectedGameInfo(selection, env) ==
  [ID |-> generateGameID(selection.Name), Name |-> selection.Name, Platform |-> "pcgw",
   SavePaths |-> SelectedPaths(selection.SelectedGame, env) \o CustomPathOf(selection, env),
   Patterns |-> SaveFilePatterns,
   CustomPaths |-> CustomPathOf(selection, env),
   Metadata |-> SelectedMetadata(selection.SelectedGame),
   LastBackup |-> ZeroTime, TotalSize |-> 0, FileCount |-> 0]

\* lines 1082-1088: os.Stat returns no error for one of the save paths
pathExists(game, fs) == \E i \in 1..Len(game.SavePaths) : Exists(fs, game.SavePaths[i])

AddGameFromPCGW(selection, writeOk) ==
  /\ steps < MaxSteps
  /\ steps' = steps + 1
  /\ \E game \in {SelectedGameInfo(selection, MainEnv)} :
       IF ~pathExists(game, FS)
         THEN /\ last' = Result("AddGameFromPCGW", selection, <<>>, "notexist", <<"stat">>, <<>>)
              /\ UNCHANGED <<DetectedGames, db>>
         ELSE \E games \in {Put(DetectedGames, game.ID,
                                updateGameInfo(game, FS, MainEnv, Config.ExcludePatterns))} :
              /\ DetectedGames' = games
              /\ db' = SaveDatabase(games, db, writeOk)
              /\ last' = Result("AddGameFromPCGW", selection, [writeOk |-> writeOk],
                                IF writeOk THEN "ok" ELSE "saveerror",
                                <<"stat", "insert", "refresh", "save">>, <<>>)
  /\ UNCHANGED <<Config, bfs, fsIdx, now, mclock, probe>>

(***************************************************************************)
(* App.RemoveGame (main.go 157-163).                                       *)
(***************************************************************************)
RemoveGame(gameID, writeOk) ==
  /\ steps < MaxSteps
  /\ steps' = steps + 1
  /\ IF gameID \notin DOMAIN DetectedGames
       THEN /\ last' = Result("RemoveGame", gameID, <<>>, "notfound", <<>>, <<>>)
            /\ UNCHANGED <<DetectedGames, db>>
       ELSE /\ DetectedGames' = Delete(DetectedGames, gameID)
            /\ db' = SaveDatabase(Delete(DetectedGames, gameID), db, writeOk)
            /\ last' = Result("RemoveGame", gameID, [writeOk |-> writeOk],
                              IF writeOk THEN "ok" ELSE "saveerror",
                              <<"delete", "save">>, <<>>)
  /\ UNCHANGED <<Config, bfs, fsIdx, now, mclock, probe>>

(***************************************************************************)
(* App.GetGameInfo (main.go 145-154).                                      *)
(***************************************************************************)
GetGameInfo(gameID) ==
  /\ steps < MaxSteps
  /\ steps' = steps + 1
  /\ IF gameID \notin DOMAIN DetectedGames
       THEN /\ last' = Result("GetGameInfo", gameID, <<>>, "notfound", <<>>, <<>>)
            /\ UNCHANGED DetectedGames
       ELSE /\ DetectedGames' =
                 [DetectedGames EXCEPT ![gameID] =
                    updateGameInfo(@, FS, MainEnv, Config.ExcludePatterns)]
            /\ last' = Result("GetGameInfo", gameID, <<>>, "ok", <<"refresh">>, <<>>)
  /\ UNCHANGED <<Config, db, bfs, fsIdx, now, mclock, probe>>

(***************************************************************************)
(* BackupManager.GetGameList (main.go 996-1008).                           *)
(***************************************************************************)
\* the printable ASCII characters in the order of their codes (the grave accent, which
\* no name holds, left out)
AsciiChars ==
  <<" ","!","\"","#","$","%","&","'","(",")","*","+",",","-",".","/">>
  \o DigitChars \o <<":",";","<","=",">","?","@">> \o UpperChars
  \o <<"[","\\","]","^","_">> \o LowerChars \o <<"{","|","}","~">>

\* a < b on Go strings: byte by byte, a proper prefix first
StrLess(a, b) ==
  \/ Len(a) < Len(b) /\ Take(b, Len(a)) = a
  \/ \E k \in 1..Len(a) :
       /\ k <= Len(b)
       /\ Take(a, k - 1) = Take(b, k - 1)
       /\ IndexIn(a[k], AsciiChars) < IndexIn(b[k], AsciiChars)

\* a faulty sort: the comparison of line 1004 turned round
SortedByNameDescending(games) ==
  { f \in Perms(games) : \A i \in 1..(Len(f) - 1) : ~StrLess(f[i].Name, f[i + 1].Name) }

\* lines 1003-1005: every order sort.Slice may leave (it is not stable) under
\* games[i].Name < games[j].Name
SortedByName(games) ==
  { f \in Perms(games) : \A i \in 1..(Len(f) - 1) : ~StrLess(f[i + 1].Name, f[i].Name) }

\* lines 997-1000: the records of the map, whatever order the range yields
Records(games) == { games[id] : id \in DOMAIN games }

\* sorted: one of SortedByName; the catalog is only read
GetGameList(sorted) ==
  /\ steps < MaxSteps
  /\ steps' = steps + 1
  /\ last' = Result("GetGameList", <<>>, <<>>, "ok", <<"collect", "sort">>, sorted)
  /\ UNCHANGED <<DetectedGames, Config, db, bfs, fsIdx, now, mclock, probe>>

(***************************************************************************)
(* App.UpdateConfig (main.go 139-142).                                     *)
(***************************************************************************)
UpdateConfig(config, writeOk) ==
  /\ steps < MaxSteps
  /\ steps' = steps + 1
  /\ Config' = config
  /\ last' = Result("UpdateConfig", <<>>, [writeOk |-> writeOk],
                    IF writeOk THEN "ok" ELSE "saveerror", <<"assign", "saveconfig">>, <<>>)
  /\ UNCHANGED <<DetectedGames, db, bfs, fsIdx, now, mclock, probe>>

(***************************************************************************)
(* BackupManager.CreateBackup (main.go 739-781).                           *)
(***************************************************************************)
\* lines 757-770: the snapshot, written under the name of this second
ZipSnapshot(fsb, key, name, zip, t) ==
  [ok |-> zip.ok, name |-> name,
   fsb |-> WriteZip(fsb, key, name, zip.entries, zip.ok, t)]

FolderSnapshot(fsb, key, name, folder, t) ==
  [ok |-> folder.ok, name |-> name,
   fsb |-> WriteFolder(fsb, key, name, folder.files, folder.ok, t)]

\* lines 754-769: the archive or the folder named after the game and the time
Snapshot(fsb, game, failAt, t) ==
  IF Config.CompressionEnabled
    THEN ZipSnapshot(fsb, DirKey(game.ID), ZipName(game.ID, now),
                     createZipBackup(game, FS, MainEnv, Config.ExcludePatterns, failAt), t)
    ELSE FolderSnapshot(fsb, DirKey(game.ID), FolderName(game.ID, now),
                        createFolderBackup(game, FS, MainEnv, Config.ExcludePatterns, failAt),
                        t)

\* the write of the snapshot the failure is injected at, 0 for none
FailAt(fail) == IF fail.at = "file" THEN fail.k ELSE 0

\* a faulty CreateBackup: the backup directory is made before the id is looked up
BackupNotFoundAfterMkdir(gameID) ==
  /\ bfs' = MkdirAll(bfs, DirKey(gameID), mclock)
  /\ mclock' = mclock + 1
  /\ last' = Result("CreateBackup", gameID, <<>>, "notfound", <<"mkdir">>, <<>>)
  /\ UNCHANGED <<DetectedGames, db>>

\* lines 740-743: the id is not in DetectedGames
BackupNotFound(gameID) ==
  /\ last' = Result("CreateBackup", gameID, <<>>, "notfound", <<>>, <<>>)
  /\ UNCHANGED <<DetectedGames, db, bfs, mclock>>

\* a faulty CreateBackup: the error of cleanOldBackups is returned
BackupResultStrict(pruneErr, writeOk) ==
  IF pruneErr THEN "pruneerror" ELSE IF writeOk THEN "ok" ELSE "saveerror"

\* lines 776-780: the error of cleanOldBackups is logged, that of SaveDatabase returned
BackupResult(pruneErr, writeOk) == IF writeOk THEN "ok" ELSE "saveerror"

\* lines 745-780
BackupFound(gameID, fail, readErr, writeOk) ==
  \E game \in {DetectedGames[gameID]} :
  \E made \in {MkdirAll(bfs, DirKey(game.ID), mclock)} :
  \E snap \in {Snapshot(made, game, FailAt(fail), mclock)} :
  \E stamped \in {[DetectedGames EXCEPT ![gameID].LastBackup = now]} :
     IF fail.at = "mkdir"
       THEN /\ last' = Result("CreateBackup", gameID, [fail |-> fail], "ioerror",
                              <<"mkdir">>, <<>>)
            /\ UNCHANGED <<DetectedGames, db, bfs, mclock>>
     ELSE IF fail.at = "create"
       THEN /\ bfs' = made
            /\ mclock' = mclock + 1
            /\ last' = Result("CreateBackup", gameID, [fail |-> fail], "ioerror",
                              <<"mkdir", "create">>, <<>>)
            /\ UNCHANGED <<DetectedGames, db>>
     ELSE IF ~snap.ok
       THEN /\ bfs' = snap.fsb
            /\ mclock' = mclock + 1
            /\ last' = Result("CreateBackup", gameID, [fail |-> fail], "ioerror",
                              <<"mkdir", "create", "write">>, [name |-> snap.name])
            /\ UNCHANGED <<DetectedGames, db>>
     ELSE \E sorted \in SortedOrders(BackupFiles(snap.fsb, game.ID)) :
          \E pruned \in {cleanOldBackups(snap.fsb, game.ID, Config.MaxBackups,
                                         readErr, sorted, mclock)} :
             /\ DetectedGames' = stamped
             /\ bfs' = pruned.fsb
             /\ mclock' = mclock + 1
             /\ db' = SaveDatabase(stamped, db, writeOk)
             /\ last' = Result("CreateBackup", gameID,
                               [fail |-> fail, readErr |-> readErr, writeOk |-> writeOk],
                               BackupResult(pruned.err, writeOk),
                               <<"mkdir", "create", "write", "stamp", "prune", "save">>,
                               [name |-> snap.name, pruneErr |-> pruned.err,
                                written |-> snap.fsb, dbAtPrune |-> db])

CreateBackup(gameID, fail, readErr, writeOk) ==
  /\ steps < MaxSteps
  /\ steps' = steps + 1
  /\ IF gameID \notin DOMAIN DetectedGames
       THEN BackupNotFound(gameID)
       ELSE BackupFound(gameID, fail, readErr, writeOk)
  /\ UNCHANGED <<Config, fsIdx, now, probe>>

(***************************************************************************)
(* The environment: the clock, and games writing their saves.              *)
(***************************************************************************)
Tick ==
  /\ now < MaxTime
  /\ now' = now + 1
  /\ UNCHANGED <<DetectedGames, Config, db, bfs, fsIdx, mclock, steps, last, probe>>

FilesChange ==
  /\ fsIdx' \in (1..Len(FsConfigs)) \ {fsIdx}
  /\ UNCHANGED <<DetectedGames, Config, db, bfs, now, mclock, steps, last, probe>>

Next ==
  \/ \E order \in PlatformOrders, writeOk \in BOOLEAN : ScanForGames(order, writeOk)
  \/ \E name \in NameInputs, savePath \in PathInputs, patterns \in PatternInputs,
        writeOk \in BOOLEAN : AddCustomGame(name, savePath, patterns, writeOk)
  \/ \E selection \in SelectionInputs, writeOk \in BOOLEAN :
       AddGameFromPCGW(selection, writeOk)
  \/ \E gameID \in IdInputs, writeOk \in BOOLEAN : RemoveGame(gameID, writeOk)
  \/ \E gameID \in IdInputs : GetGameInfo(gameID)
  \/ \E sorted \in SortedByName(Records(DetectedGames)) : GetGameList(sorted)
  \/ \E config \in ConfigInputs, writeOk \in BOOLEAN : UpdateConfig(config, writeOk)
  \/ \E gameID \in IdInputs, fail \in FailInputs :
       \E readErr \in LaterFaults(fail), writeOk \in {~f : f \in LaterFaults(fail)} :
          CreateBackup(gameID, fail, readErr, writeOk)
  \/ Tick
  \/ FilesChange

Spec == Init /\ [][Next]_vars

(***************************************************************************)
(* cleanOldBackups on its own (main.go 882-920): a backup directory with   *)
(* any entries and modification times, any Config.MaxBackups.              *)
(***************************************************************************)
PruneID == <<"f","o","o">>

\* names os.ReadDir can meet in the backup directory of PruneID: an archive and a
\* folder CreateBackup wrote, an entry of another origin whose name contains the id,
\* and one whose name does not
PruneNames ==
  <<ZipName(PruneID, 1), FolderName(PruneID, 2),
    <<"o","l","d","_","f","o","o",".","b","a","k">>,
    <<"n","o","t","e","s",".","t","x","t">>>>

\* 0: the entry is absent
PruneMtimes == [DOMAIN PruneNames -> 0..MaxMtime]

PruneNode(i, t) ==
  [dir |-> DirKey(PruneID), name |-> PruneNames[i], mtime |-> t,
   kind |-> IF i = 1 THEN "zip" ELSE IF i = 2 THEN "folder" ELSE "file",
   entries |-> <<>>, complete |-> TRUE]

PruneListing(mt) ==
  MkdirAll({}, DirKey(PruneID), 1) \cup { PruneNode(i, mt[i]) : i \in { j \in DOMAIN mt : mt[j] > 0 } }

InitPrune ==
  /\ DetectedGames = NoGames
  /\ db = NoGames
  /\ \E keep \in 0..MaxPruneKeep : Config = [DefaultConfig EXCEPT !.MaxBackups = keep]
  /\ \E mt \in PruneMtimes : bfs = PruneListing(mt)
  /\ fsIdx = 1
  /\ now = 1
  /\ mclock = MaxMtime + 1
  /\ steps = 0
  /\ last = NoOp
  /\ probe = NoProbe

Prune(gameID, readErr) ==
  /\ steps < MaxSteps
  /\ steps' = steps + 1
  /\ \E sorted \in SortedOrders(BackupFiles(bfs, gameID)) :
     \E pruned \in {cleanOldBackups(bfs, gameID, Config.MaxBackups, readErr, sorted, mclock)} :
        /\ bfs' = pruned.fsb
        /\ last' = Result("cleanOldBackups", gameID, [readErr |-> readErr],
                          IF pruned.err THEN "ioerror" ELSE "ok", <<>>, <<>>)
  /\ mclock' = mclock + 1
  /\ UNCHANGED <<DetectedGames, Config, db, fsIdx, now, probe>>

NextPrune == \E gameID \in {PruneID, UnknownID}, readErr \in BOOLEAN : Prune(gameID, readErr)

SpecPrune == InitPrune /\ [][NextPrune]_vars

(***************************************************************************)
(* looksLikeSaveDirectory on its own (main.go 605-645): listings as        *)
(* os.ReadDir returns them, sorted by name.                                *)
(***************************************************************************)
File(name) == [name |-> name, isDir |-> FALSE]

Dir(name) == [name |-> name, isDir |-> TRUE]

\* f01, f02, ...: names no pattern matches and no keyword is part of
Filler(i) == File(<<"f", DigitChars[(i \div 10) + 1], DigitChars[(i % 10) + 1]>>)

Fillers(n) == [i \in 1..n |-> Filler(i)]

Opt(present, e) == IF present THEN <<e>> ELSE <<>>

\* a listing: pick says which of the five named entries are there, n how many fillers
Listing(pick, n) ==
  [err |-> FALSE,
   entries |->
     Opt(pick[1], File(<<"G","a","m","e",".","S","A","V">>))
     \o Opt(pick[2], File(<<"M","y","C","o","n","f","i","g",".","m","d">>))
     \o Fillers(n)
     \o Opt(pick[3], File(<<"n","o","t","e","s",".","m","d">>))
     \o Opt(pick[4], File(<<"s","a","v","e","1",".","s","a","v">>))
     \o Opt(pick[5], Dir(<<"s","a","v","e","s">>))]

\* os.ReadDir failed
Unreadable == [err |-> TRUE, entries |-> <<>>]

ClassifyInputs ==
  {Unreadable} \cup { Listing(pick, n) : pick \in [1..5 -> BOOLEAN], n \in 0..MaxFiller }

InitClassify ==
  /\ DetectedGames = NoGames
  /\ Config = DefaultConfig
  /\ db = NoGames
  /\ bfs = {}
  /\ fsIdx = 1
  /\ now = 1
  /\ mclock = 1
  /\ steps = 0
  /\ last = NoOp
  /\ \E listing \in ClassifyInputs : probe = [kind |-> "listing", listing |-> listing]

Classify ==
  /\ probe.kind = "listing"
  /\ probe' = [kind |-> "classified", listing |-> probe.listing,
               result |-> looksLikeSaveDirectory(probe.listing)]
  /\ UNCHANGED <<DetectedGames, Config, db, bfs, fsIdx, now, mclock, steps, last>>

NextClassify == Classify

SpecClassify == InitClassify /\ [][NextClassify]_vars

(***************************************************************************)
(* The template resolver (pcgw.go 131-271): save paths out of wiki markup. *)
(***************************************************************************)
\* the characters strings.TrimSpace removes
WhiteSpace == {" ", "\t", "\n", "\r"}

RECURSIVE TrimLeftIn(_, _)
TrimLeftIn(s, cutset) ==
  IF s # <<>> /\ Head(s) \in cutset THEN TrimLeftIn(Tail(s), cutset) ELSE s

RECURSIVE TrimRightIn(_, _)
TrimRightIn(s, cutset) ==
  IF s # <<>> /\ s[Len(s)] \in cutset THEN TrimRightIn(Take(s, Len(s) - 1), cutset) ELSE s

\* strings.Trim(s, cutset)
TrimIn(s, cutset) == TrimRightIn(TrimLeftIn(s, cutset), cutset)

\* strings.TrimSpace
TrimSpace(s) == TrimIn(s, WhiteSpace)

\* s[start:end]: a slice expression panics when the bounds are out of range
Slice(s, start, end) ==
  IF 0 <= start /\ start <= end /\ end <= Len(s)
    THEN [panic |-> FALSE, val |-> SubSeq(s, start + 1, end)]
    ELSE [panic |-> TRUE, val |-> <<>>]

\* pcgw.go 142 and 148: the tokens that open and close a save section
SectionOpen == <<"{","{","G","a","m","e"," ","d","a","t","a","/","s","a","v","e","s">>

SectionClose == <<"}","}">>

\* pcgw.go 154: the token of a path template
PathToken == <<"{","{","P","|">>

\* pcgw.go 185-191 (and 239-243): template, replacement
Conversions ==
  <<<<<<"{","{","P","|","u","s","e","r","p","r","o","f","i","l","e","}","}">>, <<"%","U","S","E","R","P","R","O","F","I","L","E","%">>>>,
    <<<<"{","{","P","|","a","p","p","d","a","t","a","}","}">>, <<"%","A","P","P","D","A","T","A","%">>>>,
    <<<<"{","{","P","|","l","o","c","a","l","a","p","p","d","a","t","a","}","}">>, <<"%","L","O","C","A","L","A","P","P","D","A","T","A","%">>>>,
    <<<<"{","{","P","|","g","a","m","e","}","}">>, <<"%","G","A","M","E","_","D","I","R","%">>>>,
    <<<<"{","{","P","|","d","o","c","u","m","e","n","t","s","}","}">>, <<"%","U","S","E","R","P","R","O","F","I","L","E","%","\\","D","o","c","u","m","e","n","t","s">>>>>>

\* pcgw.go 161-166
CommonPatterns ==
  <<<<"{","{","P","|","u","s","e","r","p","r","o","f","i","l","e","}","}","\\","D","o","c","u","m","e","n","t","s","\\","M","y"," ","G","a","m","e","s","\\">>,
    <<"{","{","P","|","a","p","p","d","a","t","a","}","}","\\">>,
    <<"{","{","P","|","l","o","c","a","l","a","p","p","d","a","t","a","}","}","\\">>,
    <<"{","{","P","|","u","s","e","r","p","r","o","f","i","l","e","}","}","\\","S","a","v","e","d"," ","G","a","m","e","s","\\">>>>

\* pcgw.go 222: the characters taken after a common pattern
WindowSize == 100

\* pcgw.go 195-197: the conversions applied in the order the map iteration yields
RECURSIVE ApplyConversions(_, _)
ApplyConversions(line, order) ==
  IF order = <<>> THEN line
  ELSE ApplyConversions(ReplaceAll(line, Conversions[Head(order)][1],
                                   Conversions[Head(order)][2]),
                        Tail(order))

\* pcgw.go 203: a part is kept when it holds a % and no {{
KeepsPart(part) == Contains(part, <<"%">>) /\ ~Contains(part, <<"{","{">>)

\* pcgw.go 200-206: the parts between pipes, trimmed, that are kept
KeptParts(parts) == SelectSeq([i \in 1..Len(parts) |-> TrimSpace(parts[i])], KeepsPart)

\* PCGWClient.extractPathsFromLine
extractPathsFromLine(line, order) == KeptParts(Split(ApplyConversions(line, order), "|"))

\* pcgw.go 239-248: the replacements of cleanPath, in order
CleanSteps ==
  <<<<<<"{","{","P","|","u","s","e","r","p","r","o","f","i","l","e","}","}">>, <<"%","U","S","E","R","P","R","O","F","I","L","E","%">>>>,
    <<<<"{","{","P","|","a","p","p","d","a","t","a","}","}">>, <<"%","A","P","P","D","A","T","A","%">>>>,
    <<<<"{","{","P","|","l","o","c","a","l","a","p","p","d","a","t","a","}","}">>, <<"%","L","O","C","A","L","A","P","P","D","A","T","A","%">>>>,
    <<<<"{","{","P","|","d","o","c","u","m","e","n","t","s","}","}">>, <<"%","U","S","E","R","P","R","O","F","I","L","E","%","\\","D","o","c","u","m","e","n","t","s">>>>,
    <<<<"{","{","P","|","g","a","m","e","}","}">>, <<"%","G","A","M","E","_","D","I","R","%">>>>,
    <<<<"{","{">>, <<>>>>,
    <<<<"}","}">>, <<>>>>,
    <<<<"|">>, <<>>>>>>

RECURSIVE ReplaceEach(_, _, _)
ReplaceEach(s, pairs, i) ==
  IF i > Len(pairs) THEN s
  ELSE ReplaceEach(ReplaceAll(s, pairs[i][1], pairs[i][2]), pairs, i + 1)

\* PCGWClient.cleanPath
cleanPath(path) == TrimIn(TrimSpace(ReplaceEach(path, CleanSteps, 1)), {"\"", "'"})

\* the end of the window without the cap of pcgw.go 222-224
WindowEndUncapped(index, patternLen, textLen) == index + patternLen + WindowSize

\* pcgw.go 221-225: the end of the window, capped at the end of the text
WindowEnd(index, patternLen, textLen) ==
  IF index + patternLen + WindowSize > textLen THEN textLen
  ELSE index + patternLen + WindowSize

\* pcgw.go 227-231: the first line of the window, cleaned
FirstLine(window) ==
  [panic |-> window.panic, path |-> cleanPath(Split(window.val, "\n")[1])]

\* pcgw.go 216-231 for the offset strings.Index returned
ExtractAt(wikitext, pattern, index) ==
  IF index = -1 THEN [panic |-> FALSE, path |-> <<>>]
  ELSE FirstLine(Slice(wikitext, index, WindowEnd(index, Len(pattern), Len(wikitext))))

\* PCGWClient.extractFullPath: strings.Split returns at least one line
extractFullPath(wikitext, pattern) == ExtractAt(wikitext, pattern, Index(wikitext, pattern))

\* a faulty loop: the end of the section is tested before its start
RECURSIVE SectionLinesCloseFirst(_, _, _)
SectionLinesCloseFirst(lines, inSaveSection, i) ==
  IF i > Len(lines) THEN <<>>
  ELSE IF inSaveSection /\ HasPrefix(TrimSpace(lines[i]), SectionClose)
    THEN SectionLinesCloseFirst(lines, FALSE, i + 1)
  ELSE IF Contains(TrimSpace(lines[i]), SectionOpen)
    THEN SectionLinesCloseFirst(lines, TRUE, i + 1)
  ELSE IF inSaveSection /\ Contains(TrimSpace(lines[i]), PathToken)
    THEN <<i>> \o SectionLinesCloseFirst(lines, inSaveSection, i + 1)
  ELSE SectionLinesCloseFirst(lines, inSaveSection, i + 1)

\* pcgw.go 138-154: inSaveSection carried from line to line; the numbers of the
\* lines line 155 is reached for, from line i on
RECURSIVE SectionLines(_, _, _)
SectionLines(lines, inSaveSection, i) ==
  IF i > Len(lines) THEN <<>>
  ELSE IF Contains(TrimSpace(lines[i]), SectionOpen)
    THEN SectionLines(lines, TRUE, i + 1)
  ELSE IF inSaveSection /\ HasPrefix(TrimSpace(lines[i]), SectionClose)
    THEN SectionLines(lines, FALSE, i + 1)
  ELSE IF inSaveSection /\ Contains(TrimSpace(lines[i]), PathToken)
    THEN <<i>> \o SectionLines(lines, inSaveSection, i + 1)
  ELSE SectionLines(lines, inSaveSection, i + 1)

\* pcgw.go 155-156: the paths of the lines handed to extractPathsFromLine, appended
RECURSIVE ExtractEach(_, _, _)
ExtractEach(lines, passed, order) ==
  IF passed = <<>> THEN <<>>
  ELSE extractPathsFromLine(TrimSpace(lines[Head(passed)]), order)
       \o ExtractEach(lines, Tail(passed), order)

\* pcgw.go 138-158: the lines of the markup
ScanLines(lines, inSaveSection, order) ==
  ExtractEach(lines, SectionLines(lines, inSaveSection, 1), order)

\* pcgw.go 171-173: a path that is not empty is appended
WithPath(found, rest) ==
  [panic |-> found.panic \/ rest.panic,
   paths |-> (IF found.path # <<>> THEN <<found.path>> ELSE <<>>) \o rest.paths]

\* pcgw.go 168-175: the common patterns, in order
RECURSIVE ScanPatterns(_, _)
ScanPatterns(wikitext, i) ==
  IF i > Len(CommonPatterns) THEN [panic |-> FALSE, paths |-> <<>>]
  ELSE IF ~Contains(wikitext, CommonPatterns[i]) THEN ScanPatterns(wikitext, i + 1)
  ELSE WithPath(extractFullPath(wikitext, CommonPatterns[i]), ScanPatterns(wikitext, i + 1))

\* pcgw.go 262-268: seen holds the cleaned paths appended so far
RECURSIVE DedupFrom(_, _)
DedupFrom(cleaned, result) ==
  IF cleaned = <<>> THEN result
  ELSE IF Head(cleaned) # <<>> /\ Head(cleaned) \notin Range(result)
    THEN DedupFrom(Tail(cleaned), Append(result, Head(cleaned)))
  ELSE DedupFrom(Tail(cleaned), result)

\* cleanAndDeduplicatePaths without the seen map of pcgw.go 260 and 264
cleanAndKeepAll(paths) ==
  SelectSeq([i \in 1..Len(paths) |-> cleanPath(paths[i])], LAMBDA c : c # <<>>)

\* PCGWClient.cleanAndDeduplicatePaths
cleanAndDeduplicatePaths(paths) ==
  DedupFrom([i \in 1..Len(paths) |-> cleanPath(paths[i])], <<>>)

\* a parser that falls back on the common patterns only when the sections gave nothing
ReturnedSectionsFirst(sectionPaths, fallback) ==
  IF fallback.panic
    THEN [panic |-> TRUE, section |-> <<>>, collected |-> <<>>, paths |-> <<>>]
    ELSE [panic |-> FALSE, section |-> sectionPaths,
          collected |-> IF sectionPaths # <<>> THEN sectionPaths ELSE fallback.paths,
          paths |-> cleanAndDeduplicatePaths(IF sectionPaths # <<>> THEN sectionPaths
                                             ELSE fallback.paths)]

\* pcgw.go 177: the paths of the sections and of the fallback, cleaned and deduplicated
Returned(sectionPaths, fallback) ==
  IF fallback.panic
    THEN [panic |-> TRUE, section |-> <<>>, collected |-> <<>>, paths |-> <<>>]
    ELSE [panic |-> FALSE, section |-> sectionPaths,
          collected |-> sectionPaths \o fallback.paths,
          paths |-> cleanAndDeduplicatePaths(sectionPaths \o fallback.paths)]

\* PCGWClient.parseSaveDataFromWikitext; a panic leaves no result
parseSaveDataFromWikitext(wikitext, order) ==
  Returned(ScanLines(Split(wikitext, "\n"), FALSE, order), ScanPatterns(wikitext, 1))

(***************************************************************************)
(* parseSaveDataFromWikitext on its own: markup of up to MaxLines lines    *)
(* out of a vocabulary of lines.                                           *)
(***************************************************************************)
\* a save template on a line of its own
FooTemplate == <<"{","{","G","a","m","e"," ","d","a","t","a","/","s","a","v","e","s","|","W","i","n","d","o","w","s","|","{","{","P","|","u","s","e","r","p","r","o","f","i","l","e","}","}","\\","D","o","c","u","m","e","n","t","s","\\","M","y"," ","G","a","m","e","s","\\","F","o","o","}","}">>

\* the path FooTemplate documents, placeholder converted
FooPath == <<"%","U","S","E","R","P","R","O","F","I","L","E","%","\\","D","o","c","u","m","e","n","t","s","\\","M","y"," ","G","a","m","e","s","\\","F","o","o">>

\* the template of another game
BarTemplate == <<"{","{","G","a","m","e"," ","d","a","t","a","/","s","a","v","e","s","|","W","i","n","d","o","w","s","|","{","{","P","|","u","s","e","r","p","r","o","f","i","l","e","}","}","\\","D","o","c","u","m","e","n","t","s","\\","M","y"," ","G","a","m","e","s","\\","B","a","r","}","}">>

MarkupLines ==
  <<FooTemplate,
    BarTemplate,
    \* a section opened and not closed on the line
    <<"{","{","G","a","m","e"," ","d","a","t","a","/","s","a","v","e","s","|","W","i","n","d","o","w","s","|">>,
    \* the closing token, with more closing tokens behind
    <<"}","}","}","}">>,
    \* paths between pipes: quoted, padded, with a raw template left
    <<" ","\"","{","{","P","|","g","a","m","e","}","}","\\","s","a","v","e","\""," ","|"," ","{","{","P","|","a","p","p","d","a","t","a","}","}","\\","F","o","o"," ","|","{","{","P","|","u","i","d","}","}","\\","{","{","P","|","d","o","c","u","m","e","n","t","s","}","}","\\","X","|"," ","{","{","P","|","u","s","e","r","p","r","o","f","i","l","e","}","}","\\","D","o","c","u","m","e","n","t","s","\\","M","y"," ","G","a","m","e","s","\\","F","o","o"," ">>,
    \* a template the conversions do not know
    <<"|","'","{","{","P","|","s","t","e","a","m","}","}","\\","u","s","e","r","d","a","t","a","'","|","1","0","0","%","|">>,
    \* a common pattern in running text
    <<"s","e","e"," ","{","{","P","|","l","o","c","a","l","a","p","p","d","a","t","a","}","}","\\","F","o","o">>,
    \* no token at all
    <<"=","="," ","S","a","v","e"," ","g","a","m","e"," ","d","a","t","a"," ","l","o","c","a","t","i","o","n"," ","=","=">>,
    \* the closing token and, behind it, the opening marker of the next section
    <<"}","}","{","{","G","a","m","e"," ","d","a","t","a","/","s","a","v","e","s","|","L","i","n","u","x","|">>,
    \* the closing token, indented, and a path template behind it
    <<" ","}","}","|","{","{","P","|","g","a","m","e","}","}","\\","o","l","d","|">>>>

\* the markup made of the lines picked, joined by newlines
Markup(picks) == Join([i \in 1..Len(picks) |-> MarkupLines[picks[i]]], <<"\n">>)

MarkupInputs ==
  { Markup(picks) : picks \in UNION { [1..n -> DOMAIN MarkupLines] : n \in 0..MaxLines } }

\* the order a range over the conversions map may yield: every template comes first
\* in one of them
ConversionOrders ==
  { Rotate(<<1, 2, 3, 4, 5>>, r) : r \in 0..4 } \cup {<<5, 4, 3, 2, 1>>}

InitParse ==
  /\ DetectedGames = NoGames
  /\ Config = DefaultConfig
  /\ db = NoGames
  /\ bfs = {}
  /\ fsIdx = 1
  /\ now = 1
  /\ mclock = 1
  /\ steps = 0
  /\ last = NoOp
  /\ \E wikitext \in MarkupInputs : probe = [kind |-> "markup", wikitext |-> wikitext]

Parse(order) ==
  /\ probe.kind = "markup"
  /\ probe' = [kind |-> "parsed", wikitext |-> probe.wikitext,
               passed |-> SectionLines(Split(probe.wikitext, "\n"), FALSE, 1),
               result |-> parseSaveDataFromWikitext(probe.wikitext, order)]
  /\ UNCHANGED <<DetectedGames, Config, db, bfs, fsIdx, now, mclock, steps, last>>

NextParse == \E order \in ConversionOrders : Parse(order)

SpecParse == InitParse /\ [][NextParse]_vars

(***************************************************************************)
(* ExpandPath on its own: paths of up to MaxPieces pieces, under every     *)
(* environment that sets or leaves unset each variable ExpandPath reads.   *)
(***************************************************************************)
\* the placeholders of main.go 472-490 and the variable each one reads
Placeholders ==
  <<<<P_USERPROFILE, "USERPROFILE">>, <<P_APPDATA, "APPDATA">>,
    <<P_LOCALAPPDATA, "LOCALAPPDATA">>, <<P_PROGRAMFILES, "PROGRAMFILES">>,
    <<P_PROGRAMFILES_X86, "PROGRAMFILES(X86)">>,
    <<<<"~">>, "HOME">>, <<P_HOME, "HOME">>,
    <<P_XDG_CONFIG_HOME, "XDG_CONFIG_HOME">>, <<P_XDG_DATA_HOME, "XDG_DATA_HOME">>>>

\* main.go 472-476 and 479-491
WindowsPlaceholders == 1..5

UnixPlaceholders == 6..9

\* what a path is made of: the placeholders, a directory, a placeholder in
\* lower case, and the characters placeholders start with
PathPieces ==
  [i \in DOMAIN Placeholders |-> Placeholders[i][1]]
    \o <<<<"/","x">>, ToLower(P_APPDATA), <<"$">>, <<"%">>>>

ExpandInputs ==
  { Join([i \in 1..Len(picks) |-> PathPieces[picks[i]]], <<>>) :
      picks \in UNION { [1..n -> DOMAIN PathPieces] : n \in 0..MaxPieces } }

\* the value of a variable that is set
SetValue ==
  [v \in EnvNames |-> CASE v = "USERPROFILE" -> <<"/","u">>
                       [] v = "APPDATA" -> <<"/","a">>
                       [] v = "LOCALAPPDATA" -> <<"/","l">>
                       [] v = "PROGRAMFILES" -> <<"/","p">>
                       [] v = "PROGRAMFILES(X86)" -> <<"/","q">>
                       [] v = "HOME" -> <<"/","h">>
                       [] v = "XDG_CONFIG_HOME" -> <<"/","c">>
                       [] OTHER -> <<"/","d">>]

\* os.Getenv gives "" for a variable that is unset
EnvInputs ==
  { [v \in EnvNames |-> IF v \in set THEN SetValue[v] ELSE <<>>] : set \in SUBSET EnvNames }

InitExpand ==
  /\ DetectedGames = NoGames
  /\ Config = DefaultConfig
  /\ db = NoGames
  /\ bfs = {}
  /\ fsIdx = 1
  /\ now = 1
  /\ mclock = 1
  /\ steps = 0
  /\ last = NoOp
  /\ \E path \in ExpandInputs, env \in EnvInputs :
       probe = [kind |-> "path", path |-> path, env |-> env]

Expand ==
  /\ probe.kind = "path"
  /\ probe' = [kind |-> "expanded", path |-> probe.path, env |-> probe.env,
               once |-> ExpandPath(probe.path, probe.env),
               twice |-> ExpandPath(ExpandPath(probe.path, probe.env), probe.env)]
  /\ UNCHANGED <<DetectedGames, Config, db, bfs, fsIdx, now, mclock, steps, last>>

NextExpand == Expand

SpecExpand == InitExpand /\ [][NextExpand]_vars

(***************************************************************************)
(* The requests of the template resolver (pcgw.go 60-128).  A response is  *)
(* what httpClient.Get, io.ReadAll and json.Unmarshal make of a request:   *)
(* kind says which of them returned an error, "ok" when none did.          *)
(***************************************************************************)
FailureKinds == {"transport", "read", "malformed"}

\* PCGWClient.GetGameSaveData: the error and the paths returned
GetGameSaveData(resp, order) ==
  IF resp.kind # "ok" THEN [err |-> resp.kind, paths |-> <<>>]
  ELSE [err |-> "nil", paths |-> parseSaveDataFromWikitext(resp.wikitext, order).paths]

\* pcgw.go 95-97: the save paths a candidate gets
CandidatePaths(fetched) ==
  IF fetched.err = "nil" /\ Len(fetched.paths) > 0 THEN fetched.paths ELSE <<>>

\* PCGWClient.SearchGames: the error, the candidates and the requests issued, the
\* structured query as 0 and the markup fetch of a candidate as its page id
SearchGames(resp, fetches, order) ==
  IF resp.kind # "ok"
    THEN [err |-> resp.kind, games |-> <<>>, requests |-> <<0>>]
    ELSE [err |-> "nil",
          games |-> [i \in 1..resp.count |->
                       [PageID |-> i,
                        SavePaths |-> CandidatePaths(GetGameSaveData(fetches[i], order))]],
          requests |-> <<0>> \o [i \in 1..resp.count |-> i]]

\* the responses to the structured query: a failure, or the candidates found
QueryResponses ==
  { [kind |-> k, count |-> 0] : k \in FailureKinds }
    \cup { [kind |-> "ok", count |-> n] : n \in 0..MaxCandidates }

\* the markup a page has
FetchMarkups ==
  { Markup(picks) : picks \in {<<>>, <<1>>, <<2, 1>>, <<3, 5>>, <<6>>, <<7>>, <<8>>} }

\* the responses to a markup fetch
FetchResponses ==
  { [kind |-> k, wikitext |-> <<>>] : k \in FailureKinds }
    \cup { [kind |-> "ok", wikitext |-> w] : w \in FetchMarkups }

InitSearch ==
  /\ DetectedGames = NoGames
  /\ Config = DefaultConfig
  /\ db = NoGames
  /\ bfs = {}
  /\ fsIdx = 1
  /\ now = 1
  /\ mclock = 1
  /\ steps = 0
  /\ last = NoOp
  /\ probe = [kind |-> "idle"]

\* one call of SearchGamesOnPCGW: the client keeps nothing from call to call
Search(resp, fetches, order) ==
  /\ probe.kind = "idle"
  /\ probe' = [kind |-> "searched", resp |-> resp, fetches |-> fetches,
               result |-> SearchGames(resp, fetches, order)]
  /\ UNCHANGED <<DetectedGames, Config, db, bfs, fsIdx, now, mclock, steps, last>>

Fetch(resp, order) ==
  /\ probe.kind = "idle"
  /\ probe' = [kind |-> "fetched", resp |-> resp, fetches |-> <<>>,
               result |-> GetGameSaveData(resp, order)]
  /\ UNCHANGED <<DetectedGames, Config, db, bfs, fsIdx, now, mclock, steps, last>>

NextSearch ==
  \/ \E resp \in QueryResponses, order \in ConversionOrders :
       \E fetches \in [1..resp.count -> FetchResponses] : Search(resp, fetches, order)
  \/ \E resp \in FetchResponses, order \in ConversionOrders : Fetch(resp, order)

SpecSearch == InitSearch /\ [][NextSearch]_vars

(***************************************************************************)
(* The batch backup over a list of names.  main.go declares its result,    *)
(* BatchBackupResult (185-191), and App.vue calls it (467); the function   *)
(* is not in the sources, so it is modelled on the specification: names    *)
(* processed in order, each on its own, failures collected.                *)
(***************************************************************************)
\* what happens to one name: it is backed up, the knowledge source does not know it,
\* it documents no save path, or the backup fails
ItemOutcomes == {"ok", "unknown", "nopaths", "ioerror"}

NoResult ==
  [TotalGames |-> 0, SuccessCount |-> 0, ErrorCount |-> 0, Errors |-> <<>>,
   Processed |-> <<>>]

\* a batch that stops at the first name that fails
RECURSIVE BatchUntilFailure(_, _)
BatchUntilFailure(items, result) ==
  IF items = <<>> THEN result
  ELSE IF Head(items).outcome = "ok"
    THEN BatchUntilFailure(Tail(items),
           [result EXCEPT !.SuccessCount = @ + 1,
                          !.Processed = Append(@, Head(items).name)])
  ELSE [result EXCEPT !.ErrorCount = @ + 1,
                      !.Errors = Append(@, <<Head(items).name, Head(items).outcome>>),
                      !.Processed = Append(@, Head(items).name)]

\* the names one after the other: a success is counted, a failure is counted and
\* recorded with its name, and the next name is processed either way
RECURSIVE BatchFrom(_, _)
BatchFrom(items, result) ==
  IF items = <<>> THEN result
  ELSE IF Head(items).outcome = "ok"
    THEN BatchFrom(Tail(items),
           [result EXCEPT !.SuccessCount = @ + 1,
                          !.Processed = Append(@, Head(items).name)])
  ELSE BatchFrom(Tail(items),
         [result EXCEPT !.ErrorCount = @ + 1,
                        !.Errors = Append(@, <<Head(items).name, Head(items).outcome>>),
                        !.Processed = Append(@, Head(items).name)])

\* the aggregate a batch returns; the batch itself returns no error
CreateBackupForSelectedGames(items) ==
  BatchFrom(items, [NoResult EXCEPT !.TotalGames = Len(items)])

\* the names a batch is called with; Nope is unknown to the knowledge source
BatchNames == {"EldenRing", "Foo", "Nope"}

\* a name with what happens to it
BatchItems ==
  { [name |-> n, outcome |-> o] :
      n \in BatchNames \ {"Nope"}, o \in ItemOutcomes \ {"unknown"} }
    \cup {[name |-> "Nope", outcome |-> "unknown"]}

BatchInputs == UNION { [1..n -> BatchItems] : n \in 0..MaxNames }

InitBatch ==
  /\ DetectedGames = NoGames
  /\ Config = DefaultConfig
  /\ db = NoGames
  /\ bfs = {}
  /\ fsIdx = 1
  /\ now = 1
  /\ mclock = 1
  /\ steps = 0
  /\ last = NoOp
  /\ \E items \in BatchInputs : probe = [kind |-> "batch", items |-> items]

Batch ==
  /\ probe.kind = "batch"
  /\ probe' = [kind |-> "backedup", items |-> probe.items,
               result |-> CreateBackupForSelectedGames(probe.items)]
  /\ UNCHANGED <<DetectedGames, Config, db, bfs, fsIdx, now, mclock, steps, last>>

NextBatch == Batch

SpecBatch == InitBatch /\ [][NextBatch]_vars

(***************************************************************************)
(* ScanForGames on a file tree with directories that cannot be read        *)
(* (main.go 497-602, 682-714).  A directory in denied has no permissions:  *)
(* os.ReadDir of it fails, and os.Stat and os.Lstat fail with a permission *)
(* error for every path below it.                                          *)
(***************************************************************************)
\* path lies below a directory without permissions
LiesBelow(path, denied) == \E d \in denied : HasPrefix(path, d \o <<"/">>)

\* os.Stat(path) and os.Lstat(path) fail with a permission error
StatDenied(path, denied) == LiesBelow(Clean(path), denied)

\* os.ReadDir(dir) (line 606) of a directory a walk hands over
ReadDirDenied(fs, dir, denied) ==
  IF dir \in denied \/ LiesBelow(dir, denied) THEN Unreadable ELSE ReadDir(fs, dir)

\* a faulty callback: it returns the error it is handed, which ends the walk at the
\* first directory that cannot be read
VisitedUntilError(nodes, denied) ==
  SelectSeq(Take(nodes, LeastOr({ i \in 1..Len(nodes) : nodes[i].path \in denied }
                                \cup {Len(nodes)})),
            LAMBDA n : ~LiesBelow(n.path, denied))

\* the nodes of a walk the callback gets without an error: with an error it returns
\* nil (lines 573-575 and 690-692), so the walk skips what lies below a directory it
\* cannot read and goes on
Visited(nodes, denied) ==
  SelectSeq(nodes, LAMBDA n : ~LiesBelow(n.path, denied))

\* the directories of a file tree
Directories(fs) == { fs[i].path : i \in { j \in 1..Len(fs) : fs[j].isDir } }

\* looksLikeSaveDirectory and the record of every directory that can be read
ReadableDirs ==
  Tabulate([fs \in Range(FsConfigs) |->
    Tabulate([path \in Directories(fs) |->
      [looks |-> looksLikeSaveDirectory(ReadDir(fs, path)),
       candidate |-> Candidate(path)]])])

\* looksLikeSaveDirectory(path): false when os.ReadDir fails (lines 606-609)
LooksLikeDenied(fs, path, denied) ==
  IF ReadDirDenied(fs, path, denied).err
    THEN looksLikeSaveDirectory(ReadDirDenied(fs, path, denied))
    ELSE ReadableDirs[fs][path].looks

\* line 531 and 568: ExpandPath(basePath) of every base path, whether it exists, and
\* the nodes below it in walk order
ExpandedRoots ==
  Tabulate([fs \in Range(FsConfigs) |->
    Tabulate([p \in Platforms |->
      Tabulate([i \in 1..Len(CommonSavePaths[p]) |->
        [path |-> Clean(ExpandPath(CommonSavePaths[p][i], MainEnv)),
         exists |-> Exists(fs, ExpandPath(CommonSavePaths[p][i], MainEnv)),
         nodes |-> WalkDir(fs, ExpandPath(CommonSavePaths[p][i], MainEnv))]])])])

\* scanDirectory, lines 568-579: the directories of the walk that look like save
\* directories; nil is returned for a path that does not exist
SaveDirsUnderDenied(fs, root, denied) ==
  IF ~root.exists /\ ~LiesBelow(root.path, denied) THEN <<>>
  ELSE LET dirs == SelectSeq(Visited(root.nodes, denied),
                     LAMBDA n : n.isDir /\ LooksLikeDenied(fs, n.path, denied))
       IN [i \in 1..Len(dirs) |-> ReadableDirs[fs][dirs[i].path].candidate]

\* the save directories the walk of every base path comes across
FoundDenied(fs, denied) ==
  [p \in Platforms |->
    [i \in 1..Len(CommonSavePaths[p]) |->
      SaveDirsUnderDenied(fs, ExpandedRoots[fs][p][i], denied)]]

\* BackupManager.gameExists: os.Stat returns no error for one of the save paths
gameExistsDenied(game, fs, env, denied) ==
  \E i \in 1..Len(game.SavePaths) :
     /\ Exists(fs, ExpandPath(game.SavePaths[i], env))
     /\ ~StatDenied(ExpandPath(game.SavePaths[i], env), denied)

PresentDenied(fs, denied) ==
  [i \in 1..Len(KnownGamesTable) |->
    gameExistsDenied(KnownGamesTable[i], fs, MainEnv, denied)]

\* filepath.WalkDir(root, fn) hands fn an error: os.Lstat(root) fails, or a
\* directory the walk visits cannot be read
WalkMeetsError(fs, root, denied) ==
  \/ ~Exists(fs, root)
  \/ StatDenied(root, denied)
  \/ \E d \in denied : /\ d = Clean(root) \/ HasPrefix(d, DirPrefix(root))
                       /\ ~LiesBelow(d, denied)

\* a faulty callback: the error it is handed is returned, and WalkDir returns it
CallbackPassesError(err) == err

\* lines 573-575 and 690-692: the callback returns nil for the error it is handed, so
\* WalkDir returns nil (FALSE: no error)
CallbackOnError(err) == FALSE

\* scanDirectory returns an error for a base path (lines 568-572)
scanDirectoryFails(fs, root, denied) ==
  /\ root.exists \/ LiesBelow(root.path, denied)
  /\ CallbackOnError(WalkMeetsError(fs, root.path, denied))

\* lines 532-534: the base paths scanDirectory returned an error for
ScanErrors(fs, denied) ==
  UNION { { <<"scan", ExpandedRoots[fs][p][i].path>> :
              i \in { j \in DOMAIN CommonSavePaths[p] :
                        scanDirectoryFails(fs, ExpandedRoots[fs][p][j], denied) } } :
          p \in Platforms }

\* updateGameInfo returns an error (lines 689-706): the walk of a save path did
updateGameInfoFails(game, fs, env, denied) ==
  \E i \in 1..Len(game.SavePaths) :
     CallbackOnError(WalkMeetsError(fs, ExpandPath(game.SavePaths[i], env), denied))

\* BackupManager.updateGameInfo: the files the walks reach are counted; with an error
\* the record is left as it is
updateGameInfoDenied(game, fs, env, excludePatterns, denied) ==
  IF updateGameInfoFails(game, fs, env, denied) THEN game
  ELSE WithStats(game, Visited(SelectedNodes(game.SavePaths, game, fs, env,
                                             excludePatterns), denied))

\* lines 538-544: the records updateGameInfo returned an error for
UpdateErrors(games, fs, env, denied) ==
  { id \in DOMAIN games : updateGameInfoFails(games[id], fs, env, denied) }

DeniedSets(fs) == { D \in SUBSET Directories(fs) : Cardinality(D) <= MaxDenied }

InitScan ==
  /\ \/ Config = DefaultConfig /\ DetectedGames = NoGames
     \/ Config = LoadedConfig /\ DetectedGames = LoadedGames
  /\ db = DetectedGames
  /\ bfs = {}
  /\ fsIdx \in 1..Len(FsConfigs)
  /\ now = 1
  /\ mclock = 1
  /\ steps = 0
  /\ last = NoOp
  /\ \E denied \in DeniedSets(FsConfigs[fsIdx]) :
        probe = [kind |-> "denied", denied |-> denied]

\* BackupManager.ScanForGames (lines 497-553) with the directories of probe.denied
\* unreadable
ScanForGamesDenied(order, writeOk) ==
  /\ steps = 0
  /\ \E withKnown \in {AddKnownGames([games |-> DetectedGames, newGames |-> <<>>],
                                      PresentDenied(FS, probe.denied), 1)} :
     \E scanned \in {ScanPlatforms(withKnown, FoundDenied(FS, probe.denied), order)} :
     \E refreshed \in {[id \in DOMAIN scanned.games |->
                         updateGameInfoDenied(scanned.games[id], FS, MainEnv,
                                              Config.ExcludePatterns, probe.denied)]} :
        /\ DetectedGames' = refreshed
        /\ db' = SaveDatabase(refreshed, db, writeOk)
        /\ steps' = steps + 1
        /\ last' = Result("ScanForGames", <<>>, [writeOk |-> writeOk],
                          IF writeOk THEN "ok" ELSE "saveerror",
                          <<"known", "scan", "refresh", "save">>,
                          [TotalGames |-> Cardinality(DOMAIN refreshed),
                           NewGames |-> scanned.newGames,
                           Updated |-> DOMAIN refreshed
                                       \ UpdateErrors(scanned.games, FS, MainEnv, probe.denied),
                           Errors |-> ScanErrors(FS, probe.denied)
                                      \cup { <<"update", id>> :
                                               id \in UpdateErrors(scanned.games, FS, MainEnv,
                                                                   probe.denied) }])
        /\ UNCHANGED <<Config, bfs, fsIdx, now, mclock, probe>>

NextScan == \E order \in PlatformOrders, writeOk \in BOOLEAN : ScanForGamesDenied(order, writeOk)

SpecScan == InitScan /\ [][NextScan]_vars

(***************************************************************************)
(* createZipBackup and createFolderBackup (main.go 784-861) on their own:  *)
(* both applied to the same record, exclusions and file tree, no write     *)
(* failing.                                                                *)
(***************************************************************************)
\* records as AddCustomGame stores them: a directory, a file or a missing path as the
\* save path, and one record that lists its directory twice
MirrorGames ==
  { CustomGame(<<"F","o","o">>, savePath, patterns) :
      savePath \in PathInputs \cup FileInputs
                   \cup {<<"/","u","/","D","o","c","u","m","e","n","t","s","/","M","y"," ","G","a","m","e","s","/","F","o","o">>},
      patterns \in PatternInputs \cup {SaveFilePatterns} }
  \cup { [CustomGame(<<"F","o","o">>, savePath, SaveFilePatterns)
            EXCEPT !.SavePaths = <<savePath, savePath>>] :
           savePath \in {<<"/","c","/","F","o","o">>} }

InitMirror ==
  /\ DetectedGames = NoGames
  /\ Config = DefaultConfig
  /\ db = NoGames
  /\ bfs = {}
  /\ fsIdx \in 1..Len(FsConfigs)
  /\ now = 1
  /\ mclock = 1
  /\ steps = 0
  /\ last = NoOp
  /\ \E game \in MirrorGames, excludePatterns \in WalkExcludes :
        probe = [kind |-> "record", game |-> game, excludePatterns |-> excludePatterns,
                 zip |-> <<>>, folder |-> <<>>]

\* BackupManager.createZipBackup into a new archive
ZipBackup ==
  /\ probe.kind = "record" /\ probe.zip = <<>>
  /\ probe' = [probe EXCEPT !.zip = createZipBackup(probe.game, FS, MainEnv,
                                                    probe.excludePatterns, 0)]
  /\ UNCHANGED <<DetectedGames, Config, db, bfs, fsIdx, now, mclock, steps, last>>

\* BackupManager.createFolderBackup into a new, empty directory
FolderBackup ==
  /\ probe.kind = "record" /\ probe.folder = <<>>
  /\ probe' = [probe EXCEPT !.folder = createFolderBackup(probe.game, FS, MainEnv,
                                                          probe.excludePatterns, 0)]
  /\ UNCHANGED <<DetectedGames, Config, db, bfs, fsIdx, now, mclock, steps, last>>

NextMirror == ZipBackup \/ FolderBackup

SpecMirror == InitMirror /\ [][NextMirror]_vars

(***************************************************************************)
(* Properties.  last holds the catalog, the database file and the backup   *)
(* directory as the last operation found them, so what an operation did is *)
(* a property of the state it leaves.                                      *)
(***************************************************************************)
\* the fields of a record a scan must not touch
KeptFields ==
  {"ID", "Name", "Platform", "SavePaths", "Patterns", "CustomPaths", "Metadata", "LastBackup"}

\* the save directories ScanForGames met in the file tree it ran on
Redetected ==
  UNION { UNION { Range(FoundUnderRoots[last.preFs][p][i]) : i \in DOMAIN CommonSavePaths[p] } :
          p \in Platforms }

\* C1: ScanForGames keeps every record that was in the catalog when it started, with
\* its id, name, platform, save paths, patterns, custom paths, metadata and last
\* backup as they were (only TotalSize and FileCount may differ), and inserts only
\* ids that were absent before.
C1_ScanKeepsRecords ==
  last.op = "ScanForGames" =>
    /\ \A id \in DOMAIN last.pre :
         /\ id \in DOMAIN DetectedGames
         /\ \A f \in KeptFields : DetectedGames[id][f] = last.pre[id][f]
    /\ DOMAIN DetectedGames = DOMAIN last.pre \cup Range(last.out.NewGames)
    /\ \A i \in 1..Len(last.out.NewGames) : last.out.NewGames[i] \notin DOMAIN last.pre

\* a scan that met a directory deriving the id of a record with another save path,
\* and recomputed the size of that record
C1_Witness ==
  /\ last.op = "ScanForGames"
  /\ \E c \in Redetected :
       /\ c.gameID \in DOMAIN last.pre
       /\ last.pre[c.gameID].SavePaths # <<c.path>>
       /\ last.pre[c.gameID].CustomPaths # <<>>
       /\ DetectedGames[c.gameID].TotalSize # last.pre[c.gameID].TotalSize

\* C4: AddCustomGame with a path that does not exist after expansion returns an
\* error and leaves the catalog and the database file as they were.
C4_AddMissingPathRejected ==
  (/\ last.op = "AddCustomGame"
   /\ ~Exists(FsConfigs[last.preFs], ExpandPath(last.arg.savePath, MainEnv)))
  => /\ last.ret = "notexist"
     /\ DetectedGames = last.pre
     /\ db = last.preDb

\* a rejected AddCustomGame on a catalog that holds a record under the id of the path
C4_Witness ==
  /\ last.op = "AddCustomGame"
  /\ ~Exists(FsConfigs[last.preFs], ExpandPath(last.arg.savePath, MainEnv))
  /\ last.ret = "notexist"
  /\ generateGameID(last.arg.savePath) \in DOMAIN last.pre

\* C6: CreateBackup of an id that is not in the catalog returns not-found and has no
\* effect: the backup directory, the records and the database file are as before, and
\* no step of the backup ran.
C6_BackupUnknownIdNoEffect ==
  (last.op = "CreateBackup" /\ last.arg \notin DOMAIN last.pre)
  => /\ last.ret = "notfound"
     /\ last.events = <<>>
     /\ bfs = last.preBfs
     /\ DetectedGames = last.pre
     /\ db = last.preDb

\* CreateBackup of an unknown id on a catalog that holds records
C6_Witness ==
  /\ last.op = "CreateBackup"
  /\ last.arg \notin DOMAIN last.pre
  /\ last.pre # NoGames

\* C9: RemoveGame of an absent id returns not-found and leaves the catalog and the
\* database file as they were; RemoveGame of a present id removes that record and
\* leaves every other record as it was.
C9_RemoveExactlyOne ==
  last.op = "RemoveGame" =>
    IF last.arg \notin DOMAIN last.pre
      THEN /\ last.ret = "notfound"
           /\ DetectedGames = last.pre
           /\ db = last.preDb
      ELSE /\ DOMAIN DetectedGames = DOMAIN last.pre \ {last.arg}
           /\ \A id \in DOMAIN DetectedGames : DetectedGames[id] = last.pre[id]

\* a record removed from a catalog that holds others
C9_Witness ==
  /\ last.op = "RemoveGame"
  /\ last.arg \in DOMAIN last.pre
  /\ Cardinality(DOMAIN last.pre) >= 2
  /\ last.ret = "ok"

\* CreateBackup found the record and wrote the whole snapshot: none of os.MkdirAll,
\* createZipBackup and createFolderBackup returned an error
BackupSucceeded ==
  /\ last.op = "CreateBackup"
  /\ last.arg \in DOMAIN last.pre
  /\ last.ret # "ioerror"

\* pattern and exclusion as the spec words them: a case-insensitive glob on the file name
Qualifies(fileName, patterns, excludePatterns) ==
  /\ \E p \in Range(patterns) : Match(ToLower(p), ToLower(fileName))
  /\ \A x \in Range(excludePatterns) : ~Match(ToLower(x), ToLower(fileName))

\* the files below root in the tree fs
FilesUnder(fs, root) ==
  { n \in Range(fs) : ~n.isDir /\ HasPrefix(n.path, Clean(root) \o <<"/">>) }

QualifyingFiles(fs, root, patterns, excludePatterns) ==
  { n \in FilesUnder(fs, root) : Qualifies(LastPart(n.path), patterns, excludePatterns) }

\* the path of a file relative to root
Below(root, n) == Drop(n.path, Len(Clean(root)) + 1)

\* the archive or folder the last CreateBackup wrote, as it was before pruning
Written == { n \in last.out.written : n.dir = DirKey(last.arg) /\ n.name = last.out.name }

\* the record the last CreateBackup was called for, and the root of its save path
BackedUp == last.pre[last.arg]

BackedUpRoot == ExpandPath(BackedUp.SavePaths[1], MainEnv)

BackedUpQualifying ==
  QualifyingFiles(FsConfigs[last.preFs], BackedUpRoot, BackedUp.Patterns,
                  Config.ExcludePatterns)

\* C3: a successful compressed CreateBackup of a record with one save path writes an
\* archive whose entries are exactly the paths, relative to the save path, of the files
\* below it whose name matches a pattern of the record and no exclude pattern of the
\* configuration, each once.
C3_ArchiveEntriesExact ==
  (/\ BackupSucceeded
   /\ Config.CompressionEnabled
   /\ Len(BackedUp.SavePaths) = 1)
  => /\ Cardinality(Written) = 1
     /\ \A n \in Written :
          /\ n.kind = "zip"
          /\ n.complete
          /\ Range(n.entries) = { Below(BackedUpRoot, f) : f \in BackedUpQualifying }
          /\ Len(n.entries) = Cardinality(BackedUpQualifying)

\* an archive of several files, one of them in a subdirectory, of a save path that
\* also holds an excluded file matching a pattern and a file matching no pattern
C3_Witness ==
  /\ BackupSucceeded
  /\ Config.CompressionEnabled
  /\ \E n \in Written :
       /\ Len(n.entries) >= 2
       /\ \E i \in DOMAIN n.entries : "/" \in Range(n.entries[i])
  /\ \E f \in FilesUnder(FsConfigs[last.preFs], BackedUpRoot) :
       /\ \E p \in Range(BackedUp.Patterns) : Match(ToLower(p), ToLower(LastPart(f.path)))
       /\ \E x \in Range(Config.ExcludePatterns) : Match(ToLower(x), ToLower(LastPart(f.path)))
  /\ \E f \in FilesUnder(FsConfigs[last.preFs], BackedUpRoot) :
       \A p \in Range(BackedUp.Patterns) : ~Match(ToLower(p), ToLower(LastPart(f.path)))

\* C5: when the snapshot was written, what CreateBackup returns depends on the save of
\* the database alone, whether pruning failed or not, and the record carries the time
\* of the backup.
C5_PruneFailureOnlyLogged ==
  BackupSucceeded =>
    /\ last.ret = (IF last.in.writeOk THEN "ok" ELSE "saveerror")
    /\ DetectedGames[last.arg].LastBackup = last.preNow
    /\ last.in.writeOk => db = DetectedGames

\* a backup whose pruning failed and that returned no error
C5_Witness ==
  /\ BackupSucceeded
  /\ last.out.pruneErr
  /\ last.ret = "ok"
  /\ DetectedGames[last.arg].LastBackup # last.pre[last.arg].LastBackup

\* the fields of a record CreateBackup must not touch
AllButLastBackup == (KeptFields \ {"LastBackup"}) \cup {"TotalSize", "FileCount"}

\* the names in a backup tree
NodeNames(fsb) == { <<n.dir, n.name>> : n \in fsb }

\* a failure is injected at a step CreateBackup reaches
FailureReached ==
  /\ last.op = "CreateBackup"
  /\ last.arg \in DOMAIN last.pre
  /\ \/ last.in.fail.at \in {"mkdir", "create"}
     \/ /\ last.in.fail.at = "file"
        /\ last.in.fail.k <= Cardinality(BackedUpQualifying)

\* C7: CreateBackup changes no field of any record but LastBackup, and that one only
\* for the record backed up and only when the whole snapshot was written.  When making
\* the backup directory, creating the archive or folder, or writing a file fails, it
\* returns the error, leaves the records and the database file as they were, removes
\* no backup, and leaves the part of the snapshot it wrote in place.
C7_OnlyStampAfterSnapshot ==
  last.op = "CreateBackup" =>
    /\ DOMAIN DetectedGames = DOMAIN last.pre
    /\ \A id \in DOMAIN last.pre :
         /\ \A f \in AllButLastBackup : DetectedGames[id][f] = last.pre[id][f]
         /\ DetectedGames[id].LastBackup # last.pre[id].LastBackup
              => /\ id = last.arg
                 /\ BackupSucceeded
                 /\ \E n \in Written : n.complete
    /\ FailureReached => last.ret = "ioerror"
    /\ last.ret = "ioerror" =>
         /\ DetectedGames = last.pre
         /\ db = last.preDb
         /\ "stamp" \notin Range(last.events)
         /\ "prune" \notin Range(last.events)
         /\ "save" \notin Range(last.events)
         /\ NodeNames(last.preBfs) \subseteq NodeNames(bfs)
         /\ "write" \in Range(last.events) =>
              \E n \in bfs : /\ n.dir = DirKey(last.arg)
                             /\ n.name = last.out.name
                             /\ ~n.complete

\* the second file of a snapshot failed: the first is in the backup directory, the
\* record and the database file are as before
C7_Witness ==
  /\ last.op = "CreateBackup"
  /\ last.ret = "ioerror"
  /\ "write" \in Range(last.events)
  /\ \E n \in bfs : /\ n.dir = DirKey(last.arg)
                    /\ n.name = last.out.name
                    /\ ~n.complete
                    /\ n.entries # <<>>
  /\ DetectedGames = last.pre

\* C8 as the spec words it: when pruning is invoked the database file already holds the
\* stamp of this backup.
C8_PersistedBeforePrune ==
  BackupSucceeded =>
    /\ last.arg \in DOMAIN last.out.dbAtPrune
    /\ last.out.dbAtPrune[last.arg].LastBackup = last.preNow

\* C8, as the code has it: the record is stamped, then pruning is invoked on a
\* database file that is still the one CreateBackup found, then the database is
\* saved, whatever pruning returned.
C8_StampPruneThenPersist ==
  BackupSucceeded =>
    /\ DetectedGames[last.arg].LastBackup = last.preNow
    /\ last.out.dbAtPrune = last.preDb
    /\ db = (IF last.in.writeOk THEN DetectedGames ELSE last.preDb)
    /\ NodeNames(bfs) \subseteq NodeNames(last.out.written)

\* pruning ran on a database file without the stamp, removed a backup, and the stamp
\* was saved afterwards
C8_Witness ==
  /\ BackupSucceeded
  /\ last.arg \in DOMAIN last.preDb
  /\ last.out.dbAtPrune[last.arg].LastBackup # last.preNow
  /\ NodeNames(bfs) # NodeNames(last.out.written)
  /\ db[last.arg].LastBackup = last.preNow

\* the entries cleanOldBackups considers: those of the directory whose name contains the id
Considered(fsb, gameID) ==
  { n \in fsb : n.dir = DirKey(gameID) /\ Contains(n.name, gameID) }

\* the entries of F with at least m more recent ones
BeyondNewest(F, m) == { n \in F : Cardinality({ o \in F : o.mtime > n.mtime }) >= m }

DistinctMtimes(F) == \A a, b \in F : a # b => a.mtime # b.mtime

\* C2: with n entries whose name contains the id, all modification times distinct, and
\* MaxBackups = m >= 1, cleanOldBackups removes exactly the n - m oldest when n > m and
\* nothing when n <= m; the m most recent stay, and so does every other entry.
C2_PruneRemovesOldest ==
  (/\ last.op = "cleanOldBackups"
   /\ last.ret = "ok"
   /\ Config.MaxBackups >= 1
   /\ DistinctMtimes(Considered(last.preBfs, last.arg)))
  => /\ NodeNames(bfs) =
          NodeNames(last.preBfs)
          \ NodeNames(BeyondNewest(Considered(last.preBfs, last.arg), Config.MaxBackups))
     /\ Cardinality(NodeNames(last.preBfs)) - Cardinality(NodeNames(bfs)) =
          IF Cardinality(Considered(last.preBfs, last.arg)) > Config.MaxBackups
            THEN Cardinality(Considered(last.preBfs, last.arg)) - Config.MaxBackups
            ELSE 0
     /\ \A n \in bfs : n.kind # "dir" => n \in last.preBfs

\* three entries with the id at distinct times and MaxBackups = 2: the oldest is gone,
\* the entry without the id is still there
C2_Witness ==
  /\ last.op = "cleanOldBackups"
  /\ last.ret = "ok"
  /\ Config.MaxBackups = 2
  /\ Cardinality(Considered(last.preBfs, last.arg)) = 3
  /\ DistinctMtimes(Considered(last.preBfs, last.arg))
  /\ Cardinality(Considered(bfs, last.arg)) = 2
  /\ Cardinality(bfs) = 4

\* an entry that is a file and whose lower-cased name matches a glob or holds a keyword
LooksLikeSave(e) ==
  /\ ~e.isDir
  /\ \/ \E p \in Range(SaveFilePatterns) : Match(ToLower(p), ToLower(e.name))
     \/ \E k \in Range(SaveKeywords) : Contains(ToLower(e.name), k)

\* C10: looksLikeSaveDirectory is true exactly when the directory can be read and one
\* of its immediate entries that is not a directory has a lower-cased name matching a
\* save glob or containing a keyword; the compound rule of line 644 equals score >= 1.
C10_ClassifierIffSaveFile ==
  probe.kind = "classified" =>
    /\ probe.result =
         (/\ ~probe.listing.err
          /\ \E i \in DOMAIN probe.listing.entries : LooksLikeSave(probe.listing.entries[i]))
    /\ SaveDirRule(SaveFileCount(probe.listing.entries), TotalFiles(probe.listing.entries))
         = (SaveFileCount(probe.listing.entries) >= 1)
    /\ probe.listing.entries = <<File(<<"s","a","v","e","1",".","s","a","v">>)>>
         => probe.result
    /\ probe.listing.entries = <<>> => ~probe.result
    /\ probe.listing.entries = Fillers(MaxFiller) \o <<Dir(<<"s","a","v","e","s">>)>>
         => ~probe.result

\* a directory of more than SmallDirLimit files, one of them holding a keyword, and a
\* subdirectory named like a save: classified as a save directory
C10_Witness ==
  /\ probe.kind = "classified"
  /\ probe.result
  /\ TotalFiles(probe.listing.entries) > SmallDirLimit
  /\ Cardinality({ i \in DOMAIN probe.listing.entries :
                     LooksLikeSave(probe.listing.entries[i]) }) = 1
  /\ \E i \in DOMAIN probe.listing.entries : probe.listing.entries[i].isDir

\* how many elements of seq equal x
Occurrences(seq, x) == Cardinality({ i \in DOMAIN seq : seq[i] = x })

(***************************************************************************)
(* C11: parseSaveDataFromWikitext applied to markup that contains the      *)
(* template FooTemplate returns a list that holds FooPath, and holds it    *)
(* once however often the template occurs.                                 *)
(***************************************************************************)
C11_TemplateResolvedOnce ==
  (probe.kind = "parsed" /\ Contains(probe.wikitext, FooTemplate))
    => Occurrences(probe.result.paths, FooPath) = 1

\* the part of C11 the code keeps: the path is never returned twice, and it
\* is returned when no common pattern occurs before the template
C11_ResolvedWhenFirst ==
  (probe.kind = "parsed" /\ Contains(probe.wikitext, FooTemplate))
    => /\ Occurrences(probe.result.paths, FooPath) <= 1
       /\ Index(probe.wikitext, CommonPatterns[1])
            = Index(probe.wikitext, FooTemplate) + Index(FooTemplate, CommonPatterns[1])
          => Occurrences(probe.result.paths, FooPath) = 1

\* the template of another game comes first and FooPath is not returned
C11_Witness ==
  /\ probe.kind = "parsed"
  /\ probe.wikitext = Markup(<<2, 1>>)
  /\ FooPath \notin Range(probe.result.paths)

\* the cleaned forms of the candidates, in the order they were collected
CleanedCandidates(collected) == [i \in DOMAIN collected |-> cleanPath(collected[i])]

\* the position of the first element of seq equal to x
FirstAt(seq, x) == CHOOSE i \in DOMAIN seq : seq[i] = x /\ \A j \in 1..(i - 1) : seq[j] # x

\* paths holds the elements of cleaned that are not empty, each once, in the
\* order of their first occurrence in cleaned
DeduplicatedInOrder(paths, cleaned) ==
  /\ <<>> \notin Range(paths)
  /\ \A i, j \in DOMAIN paths : paths[i] = paths[j] => i = j
  /\ Range(paths) = Range(cleaned) \ {<<>>}
  /\ \A i, j \in DOMAIN paths :
       i < j => FirstAt(cleaned, paths[i]) < FirstAt(cleaned, paths[j])

(***************************************************************************)
(* C12: the list parseSaveDataFromWikitext returns holds no empty string   *)
(* and no string twice, every element is the cleaned form of an extracted  *)
(* candidate, and the elements are in the order of their first extraction: *)
(* section results in line order, then fallback results in pattern order.  *)
(***************************************************************************)
C12_CleanedDeduplicatedInOrder ==
  probe.kind = "parsed" =>
    /\ DeduplicatedInOrder(probe.result.paths, CleanedCandidates(probe.result.collected))
    /\ \A order \in ConversionOrders :
         probe.result.collected
           = ScanLines(Split(probe.wikitext, "\n"), FALSE, order)
               \o ScanPatterns(probe.wikitext, 1).paths
         => \E k \in 0..Len(probe.result.collected) :
              /\ SubSeq(probe.result.collected, 1, k)
                   = ScanLines(Split(probe.wikitext, "\n"), FALSE, order)
              /\ \A i, j \in (k + 1)..Len(probe.result.collected) :
                   i < j => \E a, b \in DOMAIN CommonPatterns :
                              /\ a < b
                              /\ HasPrefix(probe.result.collected[i], cleanPath(CommonPatterns[a]))
                              /\ HasPrefix(probe.result.collected[j], cleanPath(CommonPatterns[b]))

\* candidates that clean to the same path and a candidate cleaning changes
C12_Witness ==
  /\ probe.kind = "parsed"
  /\ Len(probe.result.paths) >= 2
  /\ Len(probe.result.collected) > Len(probe.result.paths)
  /\ \E i \in DOMAIN probe.result.collected :
       cleanPath(probe.result.collected[i]) # probe.result.collected[i]

\* the markup holds a common pattern
HasCommonPattern(wikitext) ==
  \E i \in DOMAIN CommonPatterns : Contains(wikitext, CommonPatterns[i])

\* a common pattern whose window would run past the end of the text
PatternNearEnd(wikitext) ==
  \E i \in DOMAIN CommonPatterns :
    /\ Contains(wikitext, CommonPatterns[i])
    /\ Index(wikitext, CommonPatterns[i]) + Len(CommonPatterns[i]) + WindowSize
         > Len(wikitext)

(***************************************************************************)
(* C13: parseSaveDataFromWikitext returns a list for every markup (empty   *)
(* text, a section opened and never closed, a closing token with no        *)
(* section open, a common pattern within the last WindowSize characters)   *)
(* without failing, and markup with no section-opening marker and no       *)
(* common pattern gives the empty list.                                    *)
(***************************************************************************)
C13_ParserTotal ==
  probe.kind = "parsed" =>
    /\ ~probe.result.panic
    /\ (~Contains(probe.wikitext, SectionOpen) /\ ~HasCommonPattern(probe.wikitext))
         => probe.result.paths = <<>>

\* a closing token with no section open, then a common pattern near the end
C13_Witness ==
  /\ probe.kind = "parsed"
  /\ probe.wikitext = Markup(<<4, 7>>)
  /\ PatternNearEnd(probe.wikitext)
  /\ ~probe.result.panic
  /\ probe.result.paths # <<>>

\* markup with lines of paths but no marker and no pattern gives nothing
C13_WitnessEmpty ==
  /\ probe.kind = "parsed"
  /\ probe.wikitext = Markup(<<6, 4, 8>>)
  /\ probe.result.paths = <<>>

\* the path holds a placeholder of the vocabulary
HoldsPlaceholder(path) ==
  \E i \in DOMAIN Placeholders : Contains(path, Placeholders[i][1])

(***************************************************************************)
(* C14: under every environment a path that holds none of the placeholders *)
(* of the vocabulary is expanded to itself, and so expanding it twice      *)
(* gives what expanding it once gives.                                     *)
(***************************************************************************)
C14_NoPlaceholderFixed ==
  (probe.kind = "expanded" /\ ~HoldsPlaceholder(probe.path))
    => /\ probe.once = probe.path
       /\ probe.twice = probe.once

\* a path with a placeholder in lower case, every variable set
C14_Witness ==
  /\ probe.kind = "expanded"
  /\ probe.path = ToLower(P_APPDATA) \o <<"/","x">>
  /\ \A v \in EnvNames : probe.env[v] # <<>>
  /\ probe.once = probe.path

\* how many times sub occurs in s
CountOf(s, sub) ==
  Cardinality({ i \in 0..(Len(s) - Len(sub)) : SubSeq(s, i + 1, i + Len(sub)) = sub })

(***************************************************************************)
(* C15: for every placeholder of the vocabulary whose variable is absent,  *)
(* each occurrence of the placeholder in the path is replaced by the empty *)
(* string: the expansion holds no occurrence of it.                        *)
(***************************************************************************)
C15_AbsentGivesEmpty ==
  probe.kind = "expanded" =>
    \A i \in DOMAIN Placeholders :
      probe.env[Placeholders[i][2]] = <<>> => ~Contains(probe.once, Placeholders[i][1])

(***************************************************************************)
(* C15 as the code has it: a %...% placeholder whose variable is absent is *)
(* replaced by the empty string; a Unix placeholder whose variable is      *)
(* absent stays in the path, as often as it was there.                     *)
(***************************************************************************)
C15_AbsentWindowsEmptyUnixKept ==
  probe.kind = "expanded" =>
    /\ \A i \in WindowsPlaceholders :
         probe.env[Placeholders[i][2]] = <<>>
           => ~Contains(probe.once, Placeholders[i][1])
    /\ \A i \in UnixPlaceholders :
         probe.env[Placeholders[i][2]] = <<>>
           => CountOf(probe.once, Placeholders[i][1]) = CountOf(probe.path, Placeholders[i][1])
    /\ (\A v \in EnvNames : probe.env[v] = <<>>)
         => probe.once = ReplaceEach(probe.path,
                           [i \in WindowsPlaceholders |-> <<Placeholders[i][1], <<>>>>], 1)

\* a path with ~ and %APPDATA%, HOME and APPDATA absent
C15_Witness ==
  /\ probe.kind = "expanded"
  /\ probe.path = <<"~">> \o P_APPDATA
  /\ probe.env["HOME"] = <<>>
  /\ probe.env["APPDATA"] = <<>>
  /\ probe.once = <<"~">>

(***************************************************************************)
(* C16: in every reachable state Config.MaxBackups is at least 1, so       *)
(* cleanOldBackups never runs with a bound below 1.                        *)
(***************************************************************************)
C16_MaxBackupsAtLeastOne == Config.MaxBackups >= 1

\* a backup written and pruned under MaxBackups = 0: the snapshot CreateBackup has just
\* written is removed with the older ones
C16_Witness ==
  /\ BackupSucceeded
  /\ ~last.out.pruneErr
  /\ Config.MaxBackups = 0
  /\ Written # {}
  /\ \A n \in bfs : n.dir # DirKey(last.arg)

\* a request of the last call failed
RequestFailed ==
  \/ probe.resp.kind # "ok"
  \/ \E i \in DOMAIN probe.fetches : probe.fetches[i].kind # "ok"

(***************************************************************************)
(* C17: a transport failure or malformed body on any request of            *)
(* SearchGames or GetGameSaveData, the structured query or the markup      *)
(* fetch of a candidate, surfaces as an error of the operation called, and *)
(* no request is issued more than once.                                    *)
(***************************************************************************)
C17_FailureSurfaces ==
  probe.kind \in {"searched", "fetched"} =>
    /\ RequestFailed => probe.result.err # "nil"
    /\ probe.kind = "searched" =>
         \A i, j \in DOMAIN probe.result.requests :
           probe.result.requests[i] = probe.result.requests[j] => i = j

(***************************************************************************)
(* C17 as the code has it: a failed structured query is the error of       *)
(* SearchGames and a failed fetch the error of GetGameSaveData; inside     *)
(* SearchGames a failed fetch leaves the candidate without save paths and  *)
(* the search returns no error.  No request is issued twice.               *)
(***************************************************************************)
C17_QueryFailureSurfaces ==
  /\ probe.kind = "fetched" => (probe.result.err = "nil" <=> probe.resp.kind = "ok")
  /\ probe.kind = "searched" =>
       /\ probe.result.err = "nil" <=> probe.resp.kind = "ok"
       /\ probe.resp.kind = "ok" =>
            /\ Len(probe.result.games) = probe.resp.count
            /\ \A i \in DOMAIN probe.fetches :
                 probe.fetches[i].kind # "ok" => probe.result.games[i].SavePaths = <<>>
       /\ \A i, j \in DOMAIN probe.result.requests :
            probe.result.requests[i] = probe.result.requests[j] => i = j

\* the fetch of the second candidate fails and the search returns no error
C17_Witness ==
  /\ probe.kind = "searched"
  /\ probe.resp.kind = "ok"
  /\ probe.resp.count = 2
  /\ probe.fetches[1].kind = "ok"
  /\ probe.fetches[2].kind = "transport"
  /\ probe.result.err = "nil"
  /\ probe.result.games[1].SavePaths # <<>>
  /\ probe.result.games[2].SavePaths = <<>>

\* the items of the batch that failed, in the order of the batch
FailedItems(items) == SelectSeq(items, LAMBDA it : it.outcome # "ok")

(***************************************************************************)
(* C18: a batch backup processes the names in order, goes on after a name  *)
(* fails, and returns an aggregate with successCount + errorCount =        *)
(* totalGames and one error per failed name, a name unknown to the         *)
(* knowledge source among them.                                            *)
(***************************************************************************)
C18_BatchAggregates ==
  probe.kind = "backedup" =>
    /\ probe.result.Processed = [i \in DOMAIN probe.items |-> probe.items[i].name]
    /\ probe.result.TotalGames = Len(probe.items)
    /\ probe.result.SuccessCount + probe.result.ErrorCount = probe.result.TotalGames
    /\ probe.result.ErrorCount = Len(FailedItems(probe.items))
    /\ Len(probe.result.Errors) = probe.result.ErrorCount
    /\ \A i \in DOMAIN probe.result.Errors :
         probe.result.Errors[i][1] = FailedItems(probe.items)[i].name

\* an unknown name first, then a backup that fails, then one that succeeds
C18_Witness ==
  /\ probe.kind = "backedup"
  /\ Len(probe.items) = 3
  /\ probe.items[1].outcome = "unknown"
  /\ probe.items[2].outcome = "ioerror"
  /\ probe.items[3].outcome = "ok"
  /\ probe.result.SuccessCount = 1
  /\ probe.result.ErrorCount = 2
  /\ probe.result.Errors[1][1] = "Nope"

(***************************************************************************)
(* C19: GetGameList returns every record of the catalog exactly once and   *)
(* nothing else, ordered by name ascending, and leaves the catalog as it   *)
(* was.                                                                    *)
(***************************************************************************)
C19_ListSortedPermutation ==
  last.op = "GetGameList" =>
    /\ Len(last.out) = Cardinality(DOMAIN last.pre)
    /\ \A id \in DOMAIN last.pre :
         Cardinality({ i \in DOMAIN last.out : last.out[i] = last.pre[id] }) = 1
    /\ \A i, j \in DOMAIN last.out :
         i < j => ~StrLess(last.out[j].Name, last.out[i].Name)
    /\ DetectedGames = last.pre
    /\ db = last.preDb

\* a list of three records or more whose names all differ
C19_Witness ==
  /\ last.op = "GetGameList"
  /\ Len(last.out) >= 3
  /\ \A i, j \in DOMAIN last.out : i < j => StrLess(last.out[i].Name, last.out[j].Name)
  /\ \E i \in DOMAIN last.out : " " \in Range(last.out[i].Name)

\* a save directory the scan can reach: it has permissions and so has every directory
\* above it
Reachable(c, denied) ==
  c.path \notin denied /\ \A d \in denied : ~HasPrefix(c.path, d \o <<"/">>)

\* C20: ScanForGames always runs to completion over every well-known root: a root or
\* subdirectory that does not exist or cannot be read is skipped without aborting the
\* walk, the save directories under the other readable directories are still
\* discovered and inserted (their id is in the catalog afterwards, as a new game when
\* the id was not there before), no record is lost, and the only error ScanForGames
\* returns is the failure to persist the catalog
C20_ScanCompletes ==
  (last.op = "ScanForGames" /\ probe.kind = "denied") =>
     /\ last.events = <<"known", "scan", "refresh", "save">>
     /\ last.ret # "ok" => (last.ret = "saveerror" /\ ~last.in.writeOk)
     /\ last.in.writeOk => (last.ret = "ok" /\ db = DetectedGames)
     /\ DOMAIN last.pre \subseteq DOMAIN DetectedGames
     /\ \A p \in Platforms : \A i \in DOMAIN CommonSavePaths[p] :
        \A c \in Range(FoundUnderRoots[last.preFs][p][i]) :
           Reachable(c, probe.denied) =>
              /\ c.gameID \in DOMAIN DetectedGames
              /\ c.gameID \notin DOMAIN last.pre => c.gameID \in Range(last.out.NewGames)

\* a scan with a base path that does not exist and, below another one, a save directory
\* without permissions that the walk meets before a readable save directory, which
\* is inserted as a new game
C20_Witness ==
  /\ last.op = "ScanForGames" /\ probe.kind = "denied"
  /\ \E p \in Platforms : \E i \in DOMAIN CommonSavePaths[p] :
        ~ExpandedRoots[FsConfigs[last.preFs]][p][i].exists
  /\ \E p \in Platforms : \E i \in DOMAIN CommonSavePaths[p] :
     \E j, k \in DOMAIN FoundUnderRoots[last.preFs][p][i] :
        /\ j < k
        /\ FoundUnderRoots[last.preFs][p][i][j].path \in probe.denied
        /\ Reachable(FoundUnderRoots[last.preFs][p][i][k], probe.denied)
        /\ FoundUnderRoots[last.preFs][p][i][k].gameID \notin DOMAIN last.pre
        /\ FoundUnderRoots[last.preFs][p][i][k].gameID \in Range(last.out.NewGames)
        /\ DetectedGames[FoundUnderRoots[last.preFs][p][i][k].gameID].SavePaths
             = <<FoundUnderRoots[last.preFs][p][i][k].path>>

\* the path the fallback takes for a common pattern, as the returned list holds it
FallbackPath(wikitext, a) == cleanPath(extractFullPath(wikitext, CommonPatterns[a]).path)

\* C23 as stated: the common-pattern fallback contributes to the result only when the
\* section scan extracted no path; whenever the section scan yields a path the returned
\* list is the cleaned, deduplicated section-scan paths alone
C23_FallbackOnlyWithoutSection ==
  (probe.kind = "parsed" /\ probe.result.section # <<>>)
    => probe.result.paths = cleanAndDeduplicatePaths(probe.result.section)

\* C23 amended: the fallback always runs; the returned list starts with the cleaned,
\* deduplicated section-scan paths, it holds the fallback path of every common pattern
\* that occurs in the text, every element behind the section-scan paths is such a
\* fallback path, and without a common pattern in the text the list is the
\* section-scan paths alone
C23_FallbackAlwaysAppended ==
  probe.kind = "parsed" =>
    /\ HasPrefix(probe.result.paths, cleanAndDeduplicatePaths(probe.result.section))
    /\ \A a \in DOMAIN CommonPatterns :
         (Contains(probe.wikitext, CommonPatterns[a]) /\ FallbackPath(probe.wikitext, a) # <<>>)
           => FallbackPath(probe.wikitext, a) \in Range(probe.result.paths)
    /\ \A i \in DOMAIN probe.result.paths :
         i > Len(cleanAndDeduplicatePaths(probe.result.section))
           => \E a \in DOMAIN CommonPatterns :
                /\ Contains(probe.wikitext, CommonPatterns[a])
                /\ probe.result.paths[i] = FallbackPath(probe.wikitext, a)
    /\ ~HasCommonPattern(probe.wikitext)
         => probe.result.paths = cleanAndDeduplicatePaths(probe.result.section)

\* the section scan extracted paths and the fallback added one more
C23_Witness ==
  /\ probe.kind = "parsed"
  /\ probe.result.section # <<>>
  /\ Len(probe.result.paths) > Len(cleanAndDeduplicatePaths(probe.result.section))

\* the lines of the markup as the line scan tests them (pcgw.go 135 and 139)
TrimmedLines(wikitext) ==
  [i \in DOMAIN Split(wikitext, "\n") |-> TrimSpace(Split(wikitext, "\n")[i])]

\* line i lies after an opening line with no closing line in between; a line that
\* holds the opening marker is no closing line
InSection(lines, i) ==
  \E j \in 1..(i - 1) :
     /\ Contains(lines[j], SectionOpen)
     /\ \A k \in (j + 1)..(i - 1) :
          HasPrefix(lines[k], SectionClose) => Contains(lines[k], SectionOpen)

\* the numbers of the lines that hold a path template inside a section
TemplateLinesInSection(lines) ==
  { i \in DOMAIN lines : /\ Contains(lines[i], PathToken)
                         /\ ~Contains(lines[i], SectionOpen)
                         /\ ~HasPrefix(lines[i], SectionClose)
                         /\ InSection(lines, i) }

\* C30: in the line scan of parseSaveDataFromWikitext a line is passed to the per-line
\* extractor exactly when it holds the path-template marker and lies strictly after a
\* line holding the section-opening marker and before the next line starting with the
\* closing token; the opening line itself is never passed, a line that holds the
\* opening marker and starts with the closing token opens the section, and the section
\* stays open to the end of the text when no closing line follows; each such line is
\* passed once, in line order
C30_PassedExactlyInSection ==
  probe.kind = "parsed" =>
    /\ Range(probe.passed) = TemplateLinesInSection(TrimmedLines(probe.wikitext))
    /\ \A i, j \in DOMAIN probe.passed : i < j => probe.passed[i] < probe.passed[j]

\* a section left open, a line that starts with the closing token and holds the
\* opening marker, and a line of path templates at the end of the text, which is passed
C30_Witness ==
  /\ probe.kind = "parsed"
  /\ probe.wikitext = Markup(<<3, 9, 5>>)
  /\ probe.passed = <<3>>

\* an opening line that carries a path template is not passed, the line of path
\* templates behind the closing line neither
C30_WitnessClosed ==
  /\ probe.kind = "parsed"
  /\ probe.wikitext = Markup(<<1, 10, 5>>)
  /\ probe.passed = <<>>

\* C25: when ScanForGames returns, its report is consistent with the catalog:
\* totalGames is the number of records of the catalog, newGames holds exactly the
\* records whose ids were absent before the scan, each once, and updated holds every
\* record of the catalog (the refresh never fails, no record is reported as an error)
C25_ReportConsistent ==
  (last.op = "ScanForGames" /\ probe.kind = "denied") =>
     /\ last.out.TotalGames = Cardinality(DOMAIN DetectedGames)
     /\ Range(last.out.NewGames) = DOMAIN DetectedGames \ DOMAIN last.pre
     /\ \A i, j \in DOMAIN last.out.NewGames :
          last.out.NewGames[i] = last.out.NewGames[j] => i = j
     /\ last.out.Updated = DOMAIN DetectedGames
     /\ \A id \in DOMAIN DetectedGames : <<"update", id>> \notin last.out.Errors

\* a scan of a loaded catalog that finds two games or more, one of them with a
\* directory below its save path that cannot be read
C25_Witness ==
  /\ last.op = "ScanForGames" /\ probe.kind = "denied"
  /\ last.pre # NoGames
  /\ Len(last.out.NewGames) >= 2
  /\ \E id \in Range(last.out.NewGames) : \E i \in DOMAIN DetectedGames[id].SavePaths :
        /\ Exists(FS, ExpandPath(DetectedGames[id].SavePaths[i], MainEnv))
        /\ WalkMeetsError(FS, ExpandPath(DetectedGames[id].SavePaths[i], MainEnv), probe.denied)
  /\ last.out.Updated = DOMAIN DetectedGames

\* both backups of the record were taken
Mirrored == probe.kind = "record" /\ probe.zip # <<>> /\ probe.folder # <<>>

\* C22: for the same record, policy and file system contents the compressed and the
\* uncompressed backup select the same file set: the set of entry paths createZipBackup
\* writes equals the set of relative file paths createFolderBackup creates under the
\* timestamped directory
C22_SameFileSet ==
  Mirrored => Range(probe.zip.entries) = Range(probe.folder.files)

\* the part of C22 the code keeps: the two sets are equal whenever both calls
\* return without an error
C22_SameWhenBothSucceed ==
  (Mirrored /\ probe.zip.ok /\ probe.folder.ok)
    => Range(probe.zip.entries) = Range(probe.folder.files)

\* the save path is a file that matches the patterns: the archive gets the entry "."
\* and the folder backup fails without a file
C22_Witness ==
  /\ Mirrored
  /\ probe.game.SavePaths[1] \in FileInputs
  /\ probe.zip.ok /\ probe.zip.entries = << <<".">> >>
  /\ ~probe.folder.ok /\ probe.folder.files = <<>>

\* a directory with files: both backups hold them
C22_WitnessSame ==
  /\ Mirrored
  /\ probe.zip.ok /\ probe.folder.ok
  /\ Len(probe.zip.entries) >= 2
  /\ Range(probe.zip.entries) = Range(probe.folder.files)

(***************************************************************************)
(* Backups of several applications below one Config.BackupDir (main.go     *)
(* 747-758, 882-920): a catalog that holds a record whose id is empty, as  *)
(* generateGameID returns it for a name without letters and digits, next   *)
(* to the record foo, and a backup directory that holds the directories of *)
(* foo and of bar.                                                         *)
(***************************************************************************)
\* the selection AddGameFromPCGW is given for the record with the empty id
UnnamedSelection ==
  [Name |-> <<"!">>, SelectedGame |-> <<>>, CustomPath |-> <<"/","c","/","F","o","o">>]

SharedGames ==
  Put(LoadedGames, generateGameID(UnnamedSelection.Name),
      updateGameInfo(SelectedGameInfo(UnnamedSelection, MainEnv), FsA, MainEnv,
                     DefaultExcludePatterns))

OtherID == <<"b","a","r">>

\* the directory CreateBackup made for an application and the archive it wrote there
SharedDir(id, t) ==
  {[dir |-> <<>>, name |-> id, mtime |-> t, kind |-> "dir", entries |-> <<>>,
    complete |-> TRUE],
   [dir |-> id, name |-> ZipName(id, 0), mtime |-> t, kind |-> "zip", entries |-> <<>>,
    complete |-> TRUE]}

InitShared ==
  /\ DetectedGames = SharedGames
  /\ db = DetectedGames
  /\ \E keep \in 1..MaxPruneKeep, compress \in BOOLEAN :
       Config = [DefaultConfig EXCEPT !.MaxBackups = keep, !.CompressionEnabled = compress]
  /\ \E t \in 1..MaxMtime, u \in 0..MaxMtime :
       bfs = SharedDir(PruneID, t) \cup (IF u = 0 THEN {} ELSE SharedDir(OtherID, u))
  /\ fsIdx = 1
  /\ now = 1
  /\ mclock = MaxMtime + 1
  /\ steps = 0
  /\ last = NoOp
  /\ probe = NoProbe

NextShared ==
  \/ \E gameID \in IdInputs, fail \in FailInputs :
       \E readErr \in LaterFaults(fail), writeOk \in {~f : f \in LaterFaults(fail)} :
          CreateBackup(gameID, fail, readErr, writeOk)
  \/ \E gameID \in DOMAIN DetectedGames, readErr \in BOOLEAN : Prune(gameID, readErr)
  \/ Tick

SpecShared == InitShared /\ [][NextShared]_vars

(***************************************************************************)
(* ScanForGames step by step (main.go 497-553), next to the calls the      *)
(* frontend makes while a scan is running (App.vue: every bound method is  *)
(* an asynchronous call, nothing holds a lock on bm.DetectedGames).        *)
(* probe holds the position of the scan: pc, the save directories still to *)
(* visit, the result of the look-up of line 582, and what the inserts of   *)
(* line 593 replaced.  serial: the caller waits for one call to return     *)
(* before it makes the next.                                               *)
(***************************************************************************)
\* lines 528-535: the save directories in the order the walks come across them
RECURSIVE SaveDirsInOrder(_, _, _, _)
SaveDirsInOrder(found, order, j, i) ==
  IF j > Len(order) THEN <<>>
  ELSE IF i > Len(CommonSavePaths[order[j]]) THEN SaveDirsInOrder(found, order, j + 1, 1)
  ELSE [k \in 1..Len(found[order[j]][i]) |->
          [path |-> found[order[j]][i][k].path, gameID |-> found[order[j]][i][k].gameID,
           name |-> found[order[j]][i][k].name, platform |-> order[j]]]
       \o SaveDirsInOrder(found, order, j, i + 1)

\* a faulty look-up: the id is never found
IdNeverTaken(games, gameID) == FALSE

\* line 582: _, exists := bm.DetectedGames[gameID]
IdTaken(games, gameID) == gameID \in DOMAIN games

\* lines 584-592: the record of a save directory
DetectedGame(dir) ==
  [ID |-> dir.gameID, Name |-> dir.name, Platform |-> dir.platform,
   SavePaths |-> <<dir.path>>, Patterns |-> SaveFilePatterns, CustomPaths |-> <<>>,
   Metadata |-> {}, LastBackup |-> ZeroTime, TotalSize |-> 0, FileCount |-> 0]

InitRace ==
  /\ \/ Config = DefaultConfig /\ DetectedGames = NoGames
     \/ Config = LoadedConfig /\ DetectedGames = LoadedGames
  /\ db = DetectedGames
  /\ bfs = {}
  /\ fsIdx \in 1..Len(FsConfigs)
  /\ now = 1
  /\ mclock = 1
  /\ steps = 0
  /\ last = NoOp
  /\ \E serial \in BOOLEAN :
       probe = [kind |-> "scan", serial |-> serial, pc |-> "idle", todo |-> <<>>,
                exists |-> FALSE, newGames |-> <<>>, replaced |-> {}]

ScanRunning == probe.pc \in {"visit", "checked", "refresh"}

\* lines 498-525: the known games, and the walks about to start
ScanBegin(order) ==
  /\ probe.pc = "idle"
  /\ \E withKnown \in {AddKnownGames([games |-> DetectedGames, newGames |-> <<>>],
                                     KnownPresent[fsIdx], 1)} :
     \E todo \in {SaveDirsInOrder(FoundUnderRoots[fsIdx], order, 1, 1)} :
       /\ DetectedGames' = withKnown.games
       /\ probe' = [probe EXCEPT !.pc = IF todo = <<>> THEN "refresh" ELSE "visit",
                                 !.todo = todo, !.newGames = withKnown.newGames]
  /\ UNCHANGED <<Config, db, bfs, fsIdx, now, mclock, steps, last>>

\* lines 580-582: the id of the next save directory is looked up
ScanCheck ==
  /\ probe.pc = "visit"
  /\ probe' = [probe EXCEPT !.pc = "checked",
                            !.exists = IdTaken(DetectedGames, Head(probe.todo).gameID)]
  /\ UNCHANGED <<DetectedGames, Config, db, bfs, fsIdx, now, mclock, steps, last>>

\* lines 583-596: the record is stored when the look-up found none
ScanInsert ==
  /\ probe.pc = "checked"
  /\ \E dir \in {Head(probe.todo)} :
       /\ DetectedGames' = IF probe.exists THEN DetectedGames
                           ELSE Put(DetectedGames, dir.gameID, DetectedGame(dir))
       /\ probe' = [probe EXCEPT
            !.pc = IF Tail(probe.todo) = <<>> THEN "refresh" ELSE "visit",
            !.todo = Tail(probe.todo),
            !.newGames = IF probe.exists THEN @ ELSE Append(@, dir.gameID),
            !.replaced = IF ~probe.exists /\ dir.gameID \in DOMAIN DetectedGames
                           THEN @ \cup {DetectedGames[dir.gameID]} ELSE @]
  /\ UNCHANGED <<Config, db, bfs, fsIdx, now, mclock, steps, last>>

\* lines 538-552: the statistics, the database, the result
ScanEnd(writeOk) ==
  /\ probe.pc = "refresh"
  /\ \E refreshed \in {RefreshAll(DetectedGames, FS, MainEnv, Config.ExcludePatterns)} :
       /\ DetectedGames' = refreshed
       /\ db' = SaveDatabase(refreshed, db, writeOk)
       /\ last' = Result("ScanForGames", <<>>, [writeOk |-> writeOk],
                         IF writeOk THEN "ok" ELSE "saveerror",
                         <<"known", "scan", "refresh", "save">>,
                         [TotalGames |-> Cardinality(DOMAIN refreshed),
                          NewGames |-> probe.newGames,
                          Updated |-> DOMAIN refreshed,
                          Errors |-> <<>>])
  /\ probe' = [probe EXCEPT !.pc = "done"]
  /\ UNCHANGED <<Config, bfs, fsIdx, now, mclock, steps>>

\* the runtime finds two goroutines in the map at once and ends the process
\* ("fatal error: concurrent map read and map write")
MapRaceAbort ==
  /\ ~probe.serial
  /\ probe.pc \in {"visit", "checked"}
  /\ steps < MaxCalls
  /\ probe' = [probe EXCEPT !.pc = "aborted"]
  /\ UNCHANGED <<DetectedGames, Config, db, bfs, fsIdx, now, mclock, steps, last>>

\* a call of the frontend can start: the process runs, and a caller that serializes
\* waits for the scan to return
CallAllowed == steps < MaxCalls /\ probe.pc # "aborted" /\ (probe.serial => ~ScanRunning)

NextRace ==
  \/ \E order \in PlatformOrders : ScanBegin(order)
  \/ ScanCheck
  \/ ScanInsert
  \/ \E writeOk \in BOOLEAN : ScanEnd(writeOk)
  \/ MapRaceAbort
  \/ /\ CallAllowed
     /\ \E name \in NameInputs, savePath \in PathInputs, patterns \in PatternInputs,
           writeOk \in BOOLEAN : AddCustomGame(name, savePath, patterns, writeOk)
  \/ /\ CallAllowed
     /\ \E gameID \in IdInputs, writeOk \in BOOLEAN : RemoveGame(gameID, writeOk)

SpecRace == InitRace /\ [][NextRace]_vars

(***************************************************************************)
(* C24: in every Catalog state reached by ScanForGames, AddCustomGame,     *)
(* AddGameFromPCGW, CreateBackup and RemoveGame, every record is stored    *)
(* under the key equal to its ID field, and every entry of its CustomPaths *)
(* is an entry of its SavePaths.                                           *)
(***************************************************************************)
C24_KeyedByIdCustomWithinSave ==
  \A id \in DOMAIN DetectedGames :
    /\ DetectedGames[id].ID = id
    /\ \A i \in 1..Len(DetectedGames[id].CustomPaths) :
         \E j \in 1..Len(DetectedGames[id].SavePaths) :
           DetectedGames[id].SavePaths[j] = DetectedGames[id].CustomPaths[i]

\* a record added from a search result with a documented path and a custom path
C24_Witness ==
  /\ last.op = "AddGameFromPCGW"
  /\ last.ret = "ok"
  /\ \E id \in DOMAIN DetectedGames :
       /\ DetectedGames[id].Platform = "pcgw"
       /\ Len(DetectedGames[id].CustomPaths) = 1
       /\ Len(DetectedGames[id].SavePaths) = 2

\* the id AddCustomGame (line 1012) or AddGameFromPCGW (line 1047) derives
AddedId ==
  IF last.op = "AddCustomGame" THEN generateGameID(last.arg.savePath)
  ELSE generateGameID(last.arg.Name)

AddReturned == last.op \in {"AddCustomGame", "AddGameFromPCGW"}

C29_ErrorLeavesCatalog ==
  (last.op \in {"AddCustomGame", "AddGameFromPCGW", "RemoveGame"} /\ last.ret # "ok")
    => DetectedGames = last.pre

\* the Catalog file could not be written and the in-memory Catalog is changed
C29_Witness ==
  /\ last.op \in {"AddCustomGame", "AddGameFromPCGW", "RemoveGame"}
  /\ last.ret = "saveerror"
  /\ DetectedGames # last.pre

\* an entry that is the backup directory of another application than id, or lies in one
OfOtherApplication(n, id) ==
  \/ n.dir # DirKey(id)
  \/ n.kind = "dir" /\ n.name # id

PruneReturned == last.op \in {"CreateBackup", "cleanOldBackups"}

(***************************************************************************)
(* C26, as stated: CreateBackup and cleanOldBackups for one application    *)
(* never delete a backup artifact or the backup directory of another       *)
(* application, for every id generateGameID can produce, the empty id      *)
(* included.                                                               *)
(***************************************************************************)
C26_OtherApplicationsKept ==
  PruneReturned =>
    \A n \in last.preBfs : OfOtherApplication(n, last.arg) => HasNode(bfs, n.dir, n.name)

\* what the code keeps: the call for an id that is not empty deletes nothing of another
\* application
C26_KeptForNamedIds ==
  (PruneReturned /\ last.arg # <<>>) =>
    \A n \in last.preBfs : OfOtherApplication(n, last.arg) => HasNode(bfs, n.dir, n.name)

\* a backup of the record with the empty id removed the directory of another application
C26_Witness ==
  /\ last.op = "CreateBackup"
  /\ last.arg = <<>>
  /\ last.ret = "ok"
  /\ \E n \in last.preBfs : n.kind = "dir" /\ n.name # <<>> /\ ~HasNode(bfs, n.dir, n.name)

\* CreateBackup returned nil
BackupReturnedNil == last.op = "CreateBackup" /\ last.ret = "ok"

(***************************************************************************)
(* C27, as stated: every successful CreateBackup writes an artifact under  *)
(* a name no entry of the backup subdirectory had, also when two backups   *)
(* are taken within one second; it overwrites and modifies no artifact     *)
(* that was there; and the new artifact exists when the call returns.      *)
(***************************************************************************)
C27_NewArtifactEachTime ==
  BackupReturnedNil =>
    /\ ~HasNode(last.preBfs, DirKey(last.arg), last.out.name)
    /\ \A n \in last.preBfs, m \in bfs :
         (n.kind \in {"zip", "folder"} /\ m.dir = n.dir /\ m.name = n.name) => m = n
    /\ HasNode(bfs, DirKey(last.arg), last.out.name)

\* what the code keeps with MaxBackups >= 1: the artifact written is there on return
C27_NewArtifactKept ==
  BackupReturnedNil => HasNode(bfs, DirKey(last.arg), last.out.name)

\* a second backup within the same second wrote over the archive of the first
C27_Witness ==
  /\ BackupReturnedNil
  /\ Config.MaxBackups >= 1
  /\ \E n \in last.preBfs :
       /\ n.kind = "zip" /\ n.dir = DirKey(last.arg) /\ n.name = last.out.name
       /\ \E m \in bfs : m.dir = n.dir /\ m.name = n.name /\ m # n

(***************************************************************************)
(* C21: the look-up of an id by the scan and its insert are two steps with *)
(* no lock held between them.  When the calls are made one at a time, no   *)
(* insert of the scan replaces a record; a record the scan replaces is one *)
(* a call stored between the look-up and the insert, which a caller that   *)
(* does not serialize can make (the witness is that interleaving).         *)
(***************************************************************************)
C21_ReplacedOnlyWhenInterleaved ==
  /\ probe.serial => probe.replaced = {}
  /\ \A game \in probe.replaced : game.Platform = "custom" /\ game.CustomPaths # <<>>
  /\ (probe.pc = "checked" /\ probe.serial) =>
       probe.exists = IdTaken(DetectedGames, Head(probe.todo).gameID)

\* AddCustomGame ran between the look-up and the insert and its record is gone
C21_Witness ==
  /\ ~probe.serial
  /\ probe.pc = "done"
  /\ \E game \in probe.replaced :
       /\ game.Platform = "custom"
       /\ game.ID \in DOMAIN DetectedGames
       /\ DetectedGames[game.ID].Platform # "custom"
       /\ DetectedGames[game.ID].CustomPaths = <<>>
====
